---- MODULE Spec2Model ----
(***************************************************************************)
(* A model of the HL7 v2.x codec of bar2xml.py (vertical bar -> XML tree)  *)
(* and xml2bar.py (XML tree -> vertical bar).                              *)
(*                                                                         *)
(* Text is a sequence of one-character strings, so that slicing, splitting *)
(* and regular-expression search are computed as Python computes them.     *)
(* Python's None is the value None below; '' is the empty sequence <<>>.   *)
(***************************************************************************)
EXTENDS Integers, Sequences, FiniteSets, TLC

VARIABLES
    Segments,       \* bar2xml.Segments: the segment texts of the message
    segmentNo,      \* bar2xml.segmentNo: the cursor (0-based, as in the code)
    delims,         \* bar2xml's fieldSep, repSep, compSep, subCompSep and escChar
    msgStruct,      \* bar2xml's msgStruct: the structure the message is decoded against
    stack,          \* the active calls of createXML, innermost last
    retval,         \* the value the innermost call of createXML has just returned
    pc,             \* where the conversion of this message stands
    hl7XML,         \* the tree createXML returned to the driver
    xmlFile,        \* the XML document bar2xml saved, as a tree of XML source texts
    encoder,        \* xml2bar's globals: its delimiters and its Segments
    status,         \* how a script ended: a sysexits code or a Python exception
    trip            \* the round trip: the message and the tree of the first decode

vars == <<Segments, segmentNo, delims, msgStruct, stack, retval, pc, hl7XML, xmlFile,
          encoder, status, trip>>

-----------------------------------------------------------------------------
(* Text *)

None == <<"None">>

Min(a, b) == IF a < b THEN a ELSE b

\* Python s[a:b] for 0 <= a, 0 <= b
Slice(s, a, b) == SubSeq(s, a + 1, Min(b, Len(s)))

\* Python s[a:]
From(s, a) == SubSeq(s, a + 1, Len(s))

RECURSIVE Split(_, _)
\* Python s.split(c) for a one-character separator c
Split(s, c) ==
    IF \A i \in 1..Len(s) : s[i] # c
    THEN <<s>>
    ELSE LET i == CHOOSE k \in 1..Len(s) : s[k] = c /\ \A j \in 1..(k - 1) : s[j] # c
         IN  <<SubSeq(s, 1, i - 1)>> \o Split(SubSeq(s, i + 1, Len(s)), c)

\* s.split(sep) for a separator text of one character
SplitOn(s, sep) == Split(s, sep[1])

\* Python s.find(c): 0-based index of the first c, -1 if there is none
Find(s, c) ==
    IF \A i \in 1..Len(s) : s[i] # c
    THEN -1
    ELSE (CHOOSE k \in 1..Len(s) : s[k] = c /\ \A j \in 1..(k - 1) : s[j] # c) - 1

DigitChars == <<"0", "1", "2", "3", "4", "5", "6", "7", "8", "9">>
Digits == {DigitChars[i] : i \in 1..10}
HexDigits == Digits \cup {"A", "B", "C", "D", "E", "F", "a", "b", "c", "d", "e", "f"}
Whitespace == {" "}

DigitValue(c) == (CHOOSE i \in 1..10 : DigitChars[i] = c) - 1

RECURSIVE FormatInt(_)
\* Python f'{n:d}' for n >= 0
FormatInt(n) ==
    IF n < 10 THEN <<DigitChars[n + 1]>>
    ELSE FormatInt(n \div 10) \o <<DigitChars[(n % 10) + 1]>>

RECURSIVE ParseDigits(_, _)
ParseDigits(s, acc) ==
    IF s = <<>> THEN acc ELSE ParseDigits(Tail(s), 10 * acc + DigitValue(Head(s)))

\* Python int(s) for a text of decimal digits; -1 stands for ValueError
ParseInt(s) ==
    IF s # <<>> /\ \A i \in 1..Len(s) : s[i] \in Digits THEN ParseDigits(s, 0) ELSE -1

\* not s.strip(): the text is empty or all whitespace
Blank(s) == \A i \in 1..Len(s) : s[i] \in Whitespace

RECURSIVE Concat(_)
Concat(ss) == IF ss = <<>> THEN <<>> ELSE Head(ss) \o Concat(Tail(ss))

RECURSIVE Join(_, _)
\* Python c.join(ss)
Join(ss, c) ==
    IF ss = <<>> THEN <<>>
    ELSE IF Len(ss) = 1 THEN ss[1]
    ELSE ss[1] \o <<c>> \o Join(Tail(ss), c)

-----------------------------------------------------------------------------
(* The tree: xml.etree.ElementTree elements *)

\* et.Element(tag): no text, no tail, no children
Element(tag) ==
    [kind |-> "element", tag |-> tag, V |-> None, text |-> None, tail |-> None, kids |-> <<>>]

\* et.Comment(text)
Comment(text) ==
    [kind |-> "comment", tag |-> <<>>, V |-> None, text |-> text, tail |-> None, kids |-> <<>>]

\* element.append(child)
Append_(element, child) == [element EXCEPT !.kids = Append(@, child)]

\* None where an element is expected, and None where a list of refs is expected
NoElement ==
    [kind |-> "None", tag |-> <<>>, V |-> None, text |-> None, tail |-> None, kids |-> <<>>]
NoList == <<None>>

\* an exception raised while a tree is built: it replaces the node being built
Raise(exception) ==
    [kind |-> "raise", tag |-> <<>>, V |-> None, text |-> <<exception>>, tail |-> None, kids |-> <<>>]

RECURSIVE Raised(_)
\* the exceptions raised anywhere in the tree, in document order
Raised(e) ==
    IF e.kind = "raise" THEN <<e.text[1]>>
    ELSE Concat([i \in 1..Len(e.kids) |-> Raised(e.kids[i])])

-----------------------------------------------------------------------------
(* The grammar: the XML Schema files of schemaDir, an input of the program. *)
(* A small HL7-like catalogue with the shapes the code distinguishes.       *)

MSH == <<"M", "S", "H">>
PID == <<"P", "I", "D">>
OBR == <<"O", "B", "R">>
OBX == <<"O", "B", "X">>
NTE == <<"N", "T", "E">>
ZZZ == <<"Z", "Z", "Z">>

Dot(code, n) == code \o <<".">> \o FormatInt(n)

\* the names of the message structures (msgStruct) and of their groups
ADT == <<"A", "D", "T">>
ORU == <<"O", "R", "U">>
CHO == <<"C", "H", "O">>
CYC == <<"C", "Y", "C">>
BAD == <<"B", "A", "D">>
ORU_RES == ORU \o <<".", "R", "E", "S">>
ORU_PAT == ORU \o <<".", "P", "A", "T">>
ORU_ORD == ORU \o <<".", "O", "R", "D">>
ORU_OBS == ORU \o <<".", "O", "B", "S">>
CHO_ALT == CHO \o <<".", "A", "L", "T">>
CYC_LOOP == CYC \o <<".", "L", "O", "O", "P">>
BAD_NONE == BAD \o <<".", "N", "O", "N", "E">>
OPT == <<"O", "P", "T">>
REQ == <<"R", "E", "Q">>
SEQ == <<"S", "E", "Q">>
OPT_TWO == OPT \o <<".", "T", "W", "O">>
REQ_ANY == REQ \o <<".", "A", "N", "Y">>
SEQ_ONE == SEQ \o <<".", "O", "N", "E">>

\* <xsd:element ref=... minOccurs=... maxOccurs=...>
Ref(ref, minOccurs, maxOccurs) == [ref |-> ref, minOccurs |-> minOccurs, maxOccurs |-> maxOccurs]

Sequence(list) == [kind |-> "sequence", list |-> list]
Choice(list) == [kind |-> "choice", list |-> list]
Missing == [kind |-> "missing", list |-> <<>>]

\* <xsd:complexType name="<name>.CONTENT"> of the structure files
ContentOf(name) ==
    CASE name = ADT -> Sequence(<<Ref(MSH, "1", "1"), Ref(PID, "1", "1"),
                                  Ref(NTE, "0", "unbounded"), Ref(OBX, "0", "2")>>)
      [] name = ORU -> Sequence(<<Ref(MSH, "1", "1"), Ref(ORU_RES, "1", "unbounded")>>)
      [] name = ORU_RES -> Sequence(<<Ref(ORU_PAT, "0", "1"), Ref(ORU_ORD, "1", "unbounded")>>)
      [] name = ORU_PAT -> Sequence(<<Ref(PID, "1", "1"), Ref(NTE, "0", "unbounded")>>)
      [] name = ORU_ORD -> Sequence(<<Ref(OBR, "1", "1"), Ref(NTE, "0", "unbounded"),
                                      Ref(ORU_OBS, "0", "unbounded")>>)
      [] name = ORU_OBS -> Sequence(<<Ref(OBX, "1", "1"), Ref(NTE, "0", "unbounded")>>)
      [] name = CHO -> Sequence(<<Ref(MSH, "1", "1"), Ref(CHO_ALT, "1", "unbounded"),
                                  Ref(NTE, "0", "1")>>)
      [] name = CHO_ALT -> Choice(<<Ref(PID, "1", "1"), Ref(OBR, "1", "1"), Ref(OBX, "1", "1")>>)
      [] name = CYC -> Sequence(<<Ref(MSH, "1", "1"), Ref(CYC_LOOP, "1", "1")>>)
      [] name = CYC_LOOP -> Sequence(<<Ref(CYC_LOOP, "1", "1")>>)
      [] name = BAD -> Sequence(<<Ref(MSH, "1", "1"), Ref(PID, "0", "1"), Ref(BAD_NONE, "0", "1")>>)
      [] name = OPT -> Sequence(<<Ref(MSH, "1", "1"), Ref(OPT_TWO, "0", "1"),
                                  Ref(NTE, "0", "unbounded")>>)
      [] name = OPT_TWO -> Sequence(<<Ref(PID, "1", "1"), Ref(OBR, "1", "1")>>)
      [] name = REQ -> Sequence(<<Ref(MSH, "1", "1"), Ref(REQ_ANY, "1", "1"), Ref(PID, "0", "1")>>)
      [] name = REQ_ANY -> Sequence(<<Ref(NTE, "0", "unbounded")>>)
      [] name = SEQ -> Sequence(<<Ref(MSH, "1", "1"), Ref(SEQ_ONE, "1", "1"), Ref(NTE, "0", "1")>>)
      [] name = SEQ_ONE -> Sequence(<<Ref(PID, "1", "1")>>)
      [] OTHER -> Missing

Structures == {ADT, ORU, CHO, CYC, BAD}

\* int(maxOccurs) for the values the structure files hold
IntOf(attr) == CASE attr = "0" -> 0 [] attr = "1" -> 1 [] attr = "2" -> 2

-----------------------------------------------------------------------------
(* The datatype catalogue: segments.xsd, fields.xsd and datatypes.xsd *)

ST == <<"S", "T">>
SI == <<"S", "I">>
ID == <<"I", "D">>
IS == <<"I", "S">>
TX == <<"T", "X">>
FT == <<"F", "T">>
CF == <<"C", "F">>
CE == <<"C", "E">>
CX == <<"C", "X">>
HD == <<"H", "D">>
MSG == <<"M", "S", "G">>
TQ == <<"T", "Q">>
ZQ == <<"Z", "Q">>
ZT == <<"Z", "T">>
varies == <<"v", "a", "r", "i", "e", "s">>
escape == <<"e", "s", "c", "a", "p", "e">>

Refs(code, n) == [i \in 1..n |-> Dot(code, i)]

\* segmentRoot.find("xsd:complexType[@name='<seg>.CONTENT']/xsd:sequence"): the
\* refs of the declared fields, None for a segment segments.xsd does not define
xmlSegOf(seg) ==
    CASE seg = MSH -> Refs(MSH, 12)
      [] seg = PID -> Refs(PID, 4)
      [] seg = OBR -> Refs(OBR, 3)
      [] seg = OBX -> Refs(OBX, 5)
      [] seg = NTE -> Refs(NTE, 3)
      [] OTHER -> NoList

\* fieldRoot: the fixed Type attribute of <fieldRef>.ATTRIBUTES
fieldTypeOf(fieldRef) ==
    CASE fieldRef = Dot(MSH, 9) -> MSG
      [] fieldRef \in {Dot(PID, 2), Dot(PID, 3)} -> CX
      [] fieldRef = Dot(PID, 4) -> TX
      [] fieldRef = Dot(OBR, 2) -> TQ
      [] fieldRef = Dot(OBR, 3) -> ZQ
      [] fieldRef = Dot(OBX, 3) -> CE
      [] fieldRef = Dot(OBX, 5) -> varies
      [] fieldRef = Dot(NTE, 3) -> FT
      [] OTHER -> ST

\* dataTypeRoot.find("xsd:complexType[@name='<type>']/xsd:sequence"): the refs of
\* the declared parts, None for a type without a sequence
sequenceOf(type) ==
    CASE type = MSG -> Refs(MSG, 3)
      [] type = CE -> Refs(CE, 3)
      [] type = CX -> Refs(CX, 4)
      [] type = HD -> Refs(HD, 2)
      [] type = TQ -> Refs(TQ, 2)
      [] type = ZQ -> Refs(ZQ, 2)
      [] type = ZT -> Refs(ZT, 2)
      [] type = FT -> <<escape>>
      [] OTHER -> NoList

\* dataTypeRoot: the fixed Type attribute of <componentRef>.ATTRIBUTES
componentTypeOf(componentRef) ==
    CASE componentRef = Dot(CX, 4) -> HD
      [] componentRef = Dot(TQ, 2) -> TX
      [] componentRef = Dot(ZQ, 2) -> ZT
      [] componentRef = Dot(ZT, 2) -> TX
      [] componentRef = Dot(HD, 1) -> IS
      [] OTHER -> ST

-----------------------------------------------------------------------------
(* Regular expressions of the escape / character codec (bar2xml.py 90-100). *)
(* A pattern is an operator of a text and a 1-based position: the position  *)
(* of the last character of its match there, 0 if it does not match there.  *)

BS == "\\"

\* the number of consecutive characters of `set' in s from position i on
RECURSIVE Run(_, _, _)
Run(s, i, set) == IF i <= Len(s) /\ s[i] \in set THEN 1 + Run(s, i + 1, set) ELSE 0

At(s, i, c) == i <= Len(s) /\ s[i] = c

\* ...X<n hex digits>\ with n even and positive
CharRefClose(s, i, n) == IF n >= 2 /\ n % 2 = 0 /\ At(s, i + 2 + n, BS) THEN i + 2 + n ELSE 0

\* \\X([0-9A-Fa-f][0-9A-Fa-f])+\\ with the letter X or Z
CharRefEnd(s, i, letter) ==
    IF At(s, i, BS) /\ At(s, i + 1, letter) THEN CharRefClose(s, i, Run(s, i + 2, HexDigits)) ELSE 0

charXref(s, i) == CharRefEnd(s, i, "X")
charZref(s, i) == CharRefEnd(s, i, "Z")

\* \d+\\ from position d
DigitsClose(s, d, n) == IF n >= 1 /\ At(s, d + n, BS) THEN d + n ELSE 0

\* [-+]?\d+\\ from position w
SignedClose(s, w) ==
    IF w <= Len(s) /\ s[w] \in {"-", "+"}
    THEN DigitsClose(s, w + 1, Run(s, w + 1, Digits))
    ELSE DigitsClose(s, w, Run(s, w, Digits))

\* \\(\.sp\s*\d+)\\ and, signed, \\(\.in\s*[-+]?\d+)\\ and \\(\.ti\s*[-+]?\d+)\\
NumberedEnd(s, i, a, b, signed) ==
    IF At(s, i, BS) /\ At(s, i + 1, ".") /\ At(s, i + 2, a) /\ At(s, i + 3, b)
    THEN IF signed THEN SignedClose(s, i + 4 + Run(s, i + 4, Whitespace))
         ELSE DigitsClose(s, i + 4 + Run(s, i + 4, Whitespace),
                          Run(s, i + 4 + Run(s, i + 4, Whitespace), Digits))
    ELSE 0

\* \\(\.br)\\
Literal3End(s, i, a, b, c) ==
    IF At(s, i, BS) /\ At(s, i + 1, a) /\ At(s, i + 2, b) /\ At(s, i + 3, c) /\ At(s, i + 4, BS)
    THEN i + 4 ELSE 0

\* \\(H)\\ and \\(N)\\
Literal1End(s, i, a) == IF At(s, i, BS) /\ At(s, i + 1, a) /\ At(s, i + 2, BS) THEN i + 2 ELSE 0

\* the six patterns of xmlReplacements: at most one of them matches at a position
xmlReplacements(s, i) ==
    Literal1End(s, i, "H") + Literal1End(s, i, "N") + Literal3End(s, i, ".", "b", "r")
    + NumberedEnd(s, i, "s", "p", FALSE) + NumberedEnd(s, i, "i", "n", TRUE)
    + NumberedEnd(s, i, "t", "i", TRUE)

\* pattern.search(s): the start of the leftmost match, 0 if there is none
Search(pattern(_, _), s) ==
    IF \A i \in 1..Len(s) : pattern(s, i) = 0 THEN 0
    ELSE CHOOSE i \in 1..Len(s) : pattern(s, i) # 0 /\ \A j \in 1..(i - 1) : pattern(s, j) = 0

-----------------------------------------------------------------------------
(* bar2xml.fixElement *)

SearchCharRef(letter, s) == IF letter = "X" THEN Search(charXref, s) ELSE Search(charZref, s)

RECURSIVE NumericRefs(_)
\* repChars: '&#x' + two hex characters + ';' for each pair of chars
NumericRefs(chars) ==
    IF Len(chars) < 2 THEN <<>>
    ELSE <<"&", "#", "x", chars[1], chars[2], ";">> \o NumericRefs(From(chars, 2))

\* elementText[0:start] + repChars + elementText[end:] for the match from start to end
Substitute(elementText, start, end) ==
    SubSeq(elementText, 1, start - 1)
    \o NumericRefs(SubSeq(elementText, start + 2, end - 1))
    \o From(elementText, end)

RECURSIVE ReplaceCharRefs(_, _)
RECURSIVE ReplaceCharRefAt(_, _, _)
\* the while loop of lines 298-303, and of lines 304-309 for the letter Z
ReplaceCharRefs(letter, elementText) ==
    ReplaceCharRefAt(letter, elementText, SearchCharRef(letter, elementText))

ReplaceCharRefAt(letter, elementText, start) ==
    IF start = 0 THEN elementText
    ELSE ReplaceCharRefs(letter,
             Substitute(elementText, start, CharRefEnd(elementText, start, letter)))

\* et.Element('escape') with its V attribute and its tail
EscapeElement(V, tail) ==
    [kind |-> "element", tag |-> escape, V |-> V, text |-> None, tail |-> tail, kids |-> <<>>]

\* text[:next], the whole text when there is no next match
Before(text, next) == IF next = 0 THEN text ELSE SubSeq(text, 1, next - 1)

RECURSIVE EscapeElements(_)
RECURSIVE EscapeElementsAt(_, _, _)
\* lines 320-343: the escape children for a text, each with the text up to the
\* next recognised code as its tail
EscapeElements(text) ==
    IF Search(xmlReplacements, text) = 0 THEN <<>>
    ELSE EscapeElementsAt(text, Search(xmlReplacements, text),
                          xmlReplacements(text, Search(xmlReplacements, text)))

EscapeElementsAt(text, start, end) ==
    <<EscapeElement(SubSeq(text, start + 1, end - 1),
                    Before(From(text, end), Search(xmlReplacements, From(text, end))))>>
    \o EscapeElements(From(text, end))

\* lines 310-319 alone: the first escape, with the rest of the text as its tail
fixEscapesOnce(thisElement, elementText) ==
    [thisElement EXCEPT
        !.text = Before(elementText, Search(xmlReplacements, elementText)),
        !.kids = IF Search(xmlReplacements, elementText) = 0 THEN <<>>
                 ELSE <<EscapeElement(
                          SubSeq(elementText, Search(xmlReplacements, elementText) + 1,
                                 xmlReplacements(elementText, Search(xmlReplacements, elementText)) - 1),
                          From(elementText,
                               xmlReplacements(elementText, Search(xmlReplacements, elementText))))>>]

\* lines 310-343
fixEscapes(thisElement, elementText) ==
    [thisElement EXCEPT !.text = Before(elementText, Search(xmlReplacements, elementText)),
                        !.kids = EscapeElements(elementText)]

\* lines 295-343
fixElement(thisElement, textType) ==
    IF textType \notin {TX, FT, CF} THEN thisElement
    ELSE fixEscapes(thisElement, ReplaceCharRefs("Z", ReplaceCharRefs("X", thisElement.text)))

-----------------------------------------------------------------------------
(* bar2xml.createXML, lines 208-269: the element of one matched segment.    *)
(* d holds the delimiter globals: fieldSep, repSep, compSep, subCompSep.    *)

MFE == <<"M", "F", "E">>

Leaf(tag, text) == [Element(tag) EXCEPT !.text = text]

\* lines 247-254: the element of subcomponent k (0-based), if it is not empty
subComponentElement(subComponent, k, componentBits) ==
    IF subComponent = <<>> THEN <<>>
    ELSE IF k >= Len(componentBits) THEN <<Raise("IndexError")>>
    ELSE <<fixElement(Leaf(componentBits[k + 1], subComponent),
                      componentTypeOf(componentBits[k + 1]))>>

\* lines 245-254
subComponentElements(subComponents, componentBits) ==
    Concat([n \in 1..Len(subComponents) |->
               subComponentElement(subComponents[n], n - 1, componentBits)])

\* lines 242-260: a component whose type has the sequence componentBits, or none
typedComponent(component, componentRef, componentType, componentBits, d) ==
    IF componentBits # NoList /\ d.subCompSep # <<>>
    THEN [Element(componentRef) EXCEPT
             !.kids = subComponentElements(SplitOn(component, d.subCompSep), componentBits)]
    ELSE fixElement(Leaf(componentRef, component), componentType)

\* lines 238-260: the element of component j (0-based), if it is not empty
componentElement(component, j, dataTypeBits, d) ==
    IF component = <<>> THEN <<>>
    ELSE IF j >= Len(dataTypeBits) THEN <<Raise("IndexError")>>
    ELSE <<typedComponent(component, dataTypeBits[j + 1], componentTypeOf(dataTypeBits[j + 1]),
                          sequenceOf(componentTypeOf(dataTypeBits[j + 1])), d)>>

\* lines 236-260
componentElements(Components, dataTypeBits, d) ==
    Concat([n \in 1..Len(Components) |-> componentElement(Components[n], n - 1, dataTypeBits, d)])

\* lines 232-263: a field whose resolved type has the sequence dataTypeBits, or none
typedField(fieldRef, fieldType, dataTypeBits, thisField, d) ==
    IF dataTypeBits # NoList
    THEN [Element(fieldRef) EXCEPT
             !.kids = componentElements(SplitOn(thisField, d.compSep), dataTypeBits, d)]
    ELSE fixElement(Leaf(fieldRef, thisField), fieldType)

\* lines 232-234
dataTypeBitsOf(fieldType) == IF fieldType = FT THEN NoList ELSE sequenceOf(fieldType)

\* lines 227-231: the type of a field declared as 'varies'
variesType(seg, fieldRef, Fields) ==
    IF seg = OBX /\ fieldRef = Dot(OBX, 5) THEN Fields[2]
    ELSE IF seg = MFE /\ fieldRef = Dot(MFE, 4) /\ Len(Fields) > 4 THEN Fields[5]
    ELSE varies

\* lines 226-231
fieldTypeFor(seg, fieldRef, Fields) ==
    IF fieldTypeOf(fieldRef) = varies THEN variesType(seg, fieldRef, Fields)
    ELSE fieldTypeOf(fieldRef)

\* lines 224-264: a field the segment declares
declaredField(fieldRef, fieldType, thisField, d) ==
    typedField(fieldRef, fieldType, dataTypeBitsOf(fieldType), thisField, d)

\* lines 223-269: the field element of one repetition of field i (0-based)
fieldElement(seg, Fields, i, thisField, d) ==
    IF xmlSegOf(seg) = NoList THEN Raise("TypeError")       \* len(None)
    ELSE IF i < Len(xmlSegOf(seg))
    THEN declaredField(xmlSegOf(seg)[i + 1], fieldTypeFor(seg, xmlSegOf(seg)[i + 1], Fields),
                       thisField, d)
    ELSE Leaf(Dot(seg, i + 1), thisField)                   \* undefined field

\* lines 218-221
fieldReps(seg, i, field, d) ==
    IF seg # MSH /\ i # 1 THEN SplitOn(field, d.repSep) ELSE <<field>>

\* lines 222-269: the field elements of the repetitions of field i
repElements(seg, Fields, i, reps, d) ==
    [r \in 1..Len(reps) |-> fieldElement(seg, Fields, i, reps[r], d)]

\* lines 215-269: the field elements of field i (0-based), if it is not empty
fieldElements(seg, Fields, i, d) ==
    IF Fields[i + 1] = <<>> THEN <<>>
    ELSE repElements(seg, Fields, i, fieldReps(seg, i, Fields[i + 1], d), d)

\* lines 209-211: the fields, with the field separator as the first field of MSH
allFields(split, d) ==
    IF split[1] = MSH THEN <<split[1], d.fieldSep>> \o Tail(split) ELSE split

\* lines 212-269
segFields(seg, Fields, d) ==
    Concat([n \in 1..Len(Fields) |-> fieldElements(seg, Fields, n - 1, d)])

\* lines 208-269
segElement(segment, d) ==
    [Element(Slice(segment, 0, 3)) EXCEPT
        !.kids = segFields(allFields(SplitOn(segment, d.fieldSep), d)[1],
                           Tail(allFields(SplitOn(segment, d.fieldSep), d)), d)]

-----------------------------------------------------------------------------
(* bar2xml.createXML, lines 123-285, as a machine: one frame per active     *)
(* call, one step per pass of the while loop, per call and per return.      *)

DepthLimit == 200

\* the parameters and the local variables of one call
Frame(sequenceList, tag, optional, isChoice, depth) ==
    [sequenceList |-> sequenceList, tag |-> tag, optional |-> optional, isChoice |-> isChoice,
     depth |-> depth, at |-> "entry", sequenceAt |-> 0, thisElement |-> NoElement,
     tagged |-> FALSE, occurs |-> 0, lastSeg |-> None]

top == stack[Len(stack)]
here == top.sequenceList[top.sequenceAt + 1]
InLoop == pc = "decode" /\ top.at = "loop" /\ top.sequenceAt < Len(top.sequenceList)
HasSegment == segmentNo < Len(Segments)
current == Segments[segmentNo + 1]
Mismatch == HasSegment /\ here.ref # Slice(current, 0, 3)
IsGroup == Len(here.ref) > 3

fixed == <<Segments, delims, msgStruct, xmlFile, encoder, trip>>

\* the loop goes on in the same call with its locals as in f
Continue(f) ==
    /\ stack' = [stack EXCEPT ![Len(stack)] = f]
    /\ retval' = NoElement
    /\ UNCHANGED <<hl7XML, pc, status>>

\* return value: to the calling createXML, or to the driver
Return(value) ==
    /\ IF Len(stack) = 1
       THEN /\ stack' = <<>>
            /\ retval' = NoElement
            /\ hl7XML' = value
            /\ pc' = "decoded"
       ELSE /\ stack' = [SubSeq(stack, 1, Len(stack) - 1) EXCEPT ![Len(stack) - 1].at = "returned"]
            /\ retval' = value
            /\ UNCHANGED <<hl7XML, pc>>
    /\ UNCHANGED status

\* an uncaught exception, or sys.exit(code)
Exit(how) ==
    /\ pc' = "exit"
    /\ status' = how
    /\ UNCHANGED <<stack, retval, hl7XML, segmentNo>>

\* thisElement once tagged: lines 170-172, 192-194, 205-207
Tagged(f) == IF f.tagged THEN f.thisElement ELSE Element(f.tag)

\* lines 138-144 without line 140-142: the node carries no annotation
DepthGuardBare ==
    /\ pc = "decode" /\ top.at = "entry" /\ top.depth > DepthLimit
    /\ IF HasSegment
       THEN /\ segmentNo' = segmentNo + 1
            /\ Return(Element(top.tag))
       ELSE Exit("IndexError")
    /\ UNCHANGED fixed

\* lines 138-144
DepthGuard ==
    /\ pc = "decode" /\ top.at = "entry" /\ top.depth > DepthLimit
    /\ IF HasSegment
       THEN /\ segmentNo' = segmentNo + 1
            /\ Return(Append_(Element(top.tag), Comment(current)))
       ELSE Exit("IndexError")
    /\ UNCHANGED fixed

\* lines 145-150
Enter ==
    /\ pc = "decode" /\ top.at = "entry" /\ top.depth <= DepthLimit
    /\ Continue([top EXCEPT !.depth = @ + 1, !.at = "loop"])
    /\ UNCHANGED <<segmentNo, fixed>>

\* line 151 false, line 285
EndOfList ==
    /\ pc = "decode" /\ top.at = "loop" /\ top.sequenceAt >= Len(top.sequenceList)
    /\ Return(top.thisElement)
    /\ UNCHANGED <<segmentNo, fixed>>

\* lines 154-168: a group whose content the structure file defines
GroupCall ==
    /\ InLoop /\ Mismatch /\ IsGroup
    /\ ContentOf(here.ref).kind # "missing"
    /\ stack' = Append([stack EXCEPT ![Len(stack)].at = "call"],
                       Frame(ContentOf(here.ref).list, here.ref, here.minOccurs = "0",
                             ContentOf(here.ref).kind = "choice", top.depth))
    /\ UNCHANGED <<retval, hl7XML, pc, status, segmentNo, fixed>>

\* lines 161-167: neither xsd:sequence nor xsd:choice
GroupMissing ==
    /\ InLoop /\ Mismatch /\ IsGroup
    /\ ContentOf(here.ref).kind = "missing"
    /\ Exit("EX_CONFIG")
    /\ UNCHANGED fixed

\* lines 169-176 without the test of line 174: the loop always goes on
GroupFoundUnchecked ==
    /\ pc = "decode" /\ top.at = "returned" /\ retval # NoElement
    /\ Continue([top EXCEPT !.thisElement = Append_(Tagged(top), retval), !.tagged = TRUE,
                            !.at = "loop"])
    /\ UNCHANGED <<segmentNo, fixed>>

\* lines 169-176: the group call returned an element
GroupFound ==
    /\ pc = "decode" /\ top.at = "returned" /\ retval # NoElement
    /\ LET f == [top EXCEPT !.thisElement = Append_(Tagged(top), retval), !.tagged = TRUE,
                            !.at = "loop"]
       IN  IF HasSegment THEN Continue(f) ELSE Return(f.thisElement)
    /\ UNCHANGED <<segmentNo, fixed>>

\* lines 177-181 without line 179: the grammar position stays
GroupNothingRetries ==
    /\ pc = "decode" /\ top.at = "returned" /\ retval = NoElement
    /\ IF here.minOccurs = "0"
       THEN Continue([top EXCEPT !.at = "loop"])
       ELSE Return(top.thisElement)
    /\ UNCHANGED <<segmentNo, fixed>>

\* lines 177-181: the group call returned None
GroupNothing ==
    /\ pc = "decode" /\ top.at = "returned" /\ retval = NoElement
    /\ IF here.minOccurs = "0"
       THEN Continue([top EXCEPT !.sequenceAt = @ + 1, !.at = "loop"])
       ELSE Return(top.thisElement)
    /\ UNCHANGED <<segmentNo, fixed>>

\* lines 183-185
SkipOptional ==
    /\ InLoop /\ Mismatch /\ ~IsGroup
    /\ here.minOccurs = "0"
    /\ Continue([top EXCEPT !.sequenceAt = @ + 1])
    /\ UNCHANGED <<segmentNo, fixed>>

UnexpectedText == <<"U", "n", "e", "x", "p", "e", "c", "t", "e", "d", " ",
                    "s", "e", "g", "m", "e", "n", "t", ":", " ">>

\* lines 188-189 without the test of optional: the segment is unexpected
OptionalReturnAnnotated ==
    /\ InLoop /\ Mismatch /\ ~IsGroup
    /\ here.minOccurs # "0" /\ top.optional
    /\ LET f == [top EXCEPT !.thisElement = Append_(Tagged(top), Comment(UnexpectedText \o current)),
                            !.tagged = TRUE]
       IN  /\ segmentNo' = segmentNo + 1
           /\ IF segmentNo + 1 < Len(Segments) THEN Continue(f) ELSE Return(f.thisElement)
    /\ UNCHANGED fixed

\* lines 188-189
OptionalReturn ==
    /\ InLoop /\ Mismatch /\ ~IsGroup
    /\ here.minOccurs # "0" /\ top.optional
    /\ Return(top.thisElement)
    /\ UNCHANGED <<segmentNo, fixed>>

\* lines 191-199 as a fatal error
UnexpectedAbort ==
    /\ InLoop /\ Mismatch /\ ~IsGroup
    /\ here.minOccurs # "0" /\ ~top.optional
    /\ Exit("EX_DATAERR")
    /\ UNCHANGED fixed

\* lines 191-199 without line 196: the cursor stays on the segment
UnexpectedRevisit ==
    /\ InLoop /\ Mismatch /\ ~IsGroup
    /\ here.minOccurs # "0" /\ ~top.optional
    /\ LET f == [top EXCEPT !.thisElement = Append_(Tagged(top), Comment(UnexpectedText \o current)),
                            !.tagged = TRUE]
       IN  /\ segmentNo' = segmentNo
           /\ IF segmentNo < Len(Segments) THEN Continue(f) ELSE Return(f.thisElement)
    /\ UNCHANGED fixed

\* lines 191-199
Unexpected ==
    /\ InLoop /\ Mismatch /\ ~IsGroup
    /\ here.minOccurs # "0" /\ ~top.optional
    /\ LET f == [top EXCEPT !.thisElement = Append_(Tagged(top), Comment(UnexpectedText \o current)),
                            !.tagged = TRUE]
       IN  /\ segmentNo' = segmentNo + 1
           /\ IF segmentNo + 1 < Len(Segments) THEN Continue(f) ELSE Return(f.thisElement)
    /\ UNCHANGED fixed

\* lines 276-284 without the test of occurs against maxOccurs
NextPositionStays(node, occurs, sequenceAt) ==
    IF node.maxOccurs = "unbounded" THEN sequenceAt
    ELSE IF IntOf(node.maxOccurs) = 1 THEN sequenceAt + 1
    ELSE sequenceAt

\* lines 276-284: the grammar position after a match that goes on
NextPosition(node, occurs, sequenceAt) ==
    IF node.maxOccurs = "unbounded" THEN sequenceAt
    ELSE IF occurs < IntOf(node.maxOccurs) THEN sequenceAt
    ELSE sequenceAt + 1

\* line 152, where Segments[segmentNo] is read, and lines 200-284
Match ==
    /\ InLoop /\ ~Mismatch
    /\ IF ~HasSegment THEN Exit("IndexError")
       ELSE LET seg == Slice(current, 0, 3)
                occurs == IF top.lastSeg = None \/ top.lastSeg # seg THEN 0 ELSE top.occurs
                built == segElement(current, delims)
                f == [top EXCEPT !.lastSeg = seg, !.tagged = TRUE,
                                 !.thisElement = Append_(Tagged(top), built),
                                 !.occurs = occurs + 1,
                                 !.sequenceAt = NextPosition(here, occurs + 1, @)]
            IN  IF Raised(built) # <<>> THEN Exit(Raised(built)[1])
                ELSE /\ segmentNo' = segmentNo + 1
                     /\ IF segmentNo + 1 = Len(Segments) \/ top.isChoice
                        THEN Return(f.thisElement)
                        ELSE Continue(f)
    /\ UNCHANGED fixed

createXML ==
    \/ DepthGuard \/ Enter \/ EndOfList
    \/ GroupCall \/ GroupMissing \/ GroupFound \/ GroupNothing
    \/ SkipOptional \/ OptionalReturn \/ Unexpected \/ Match

-----------------------------------------------------------------------------
(* bar2xml.py, lines 593-612: the tree is indented, serialised and saved.   *)
(* The saved document is kept as a tree whose texts are XML source text.    *)

\* s[i:i+len(word)] == word, for 1-based i
Has(s, i, word) == i + Len(word) - 1 <= Len(s) /\ SubSeq(s, i, i + Len(word) - 1) = word

Amp == <<"&", "a", "m", "p", ";">>
Lt == <<"&", "l", "t", ";">>
Gt == <<"&", "g", "t", ";">>

RECURSIVE xmlEscape(_)
\* ElementTree's escaping of character data
xmlEscape(text) ==
    IF text = <<>> THEN <<>>
    ELSE (CASE Head(text) = "&" -> Amp
            [] Head(text) = "<" -> Lt
            [] Head(text) = ">" -> Gt
            [] OTHER -> <<Head(text)>>) \o xmlEscape(Tail(text))

\* <prefix>#x<n hex digits>; at position i, n even and positive: the position of ';'
RefClose(s, i, n) == IF n >= 2 /\ n % 2 = 0 /\ At(s, i + n, ";") THEN i + n ELSE 0

\* bar2xml.hl7charRef, &amp;(#x([0-9A-Fa-f][0-9A-Fa-f])+;), matched at i
ampCharRef(s, i) ==
    IF Has(s, i, Amp \o <<"#", "x">>) THEN RefClose(s, i + 7, Run(s, i + 7, HexDigits)) ELSE 0

RECURSIVE subAmpCharRef(_)
RECURSIVE subAmpCharRefAt(_, _)
\* line 600: hl7charRef.sub(r'&\1', s)
subAmpCharRef(s) == subAmpCharRefAt(s, Search(ampCharRef, s))

subAmpCharRefAt(s, start) ==
    IF start = 0 THEN s
    ELSE SubSeq(s, 1, start - 1) \o <<"&">> \o SubSeq(s, start + 5, ampCharRef(s, start))
         \o subAmpCharRef(From(s, ampCharRef(s, start)))

Indentation == <<"\n", " ", " ", " ", " ">>

\* character data as written: escaped, then line 600
written(text) == IF text = None THEN None ELSE subAmpCharRef(xmlEscape(text))

\* et.indent on the text of an element, or on the tail of a child
indented(text) == IF text = None \/ Blank(text) THEN Indentation ELSE text

RECURSIVE saved(_)
\* lines 596-612 on one element of the tree
saved(e) ==
    IF e.kind = "comment" THEN [e EXCEPT !.tail = Indentation]
    ELSE [e EXCEPT
            !.text = IF e.kids = <<>> THEN written(e.text) ELSE written(indented(e.text)),
            !.kids = [i \in 1..Len(e.kids) |->
                        [saved(e.kids[i]) EXCEPT !.tail = written(indented(e.kids[i].tail))]]]

-----------------------------------------------------------------------------
(* xml2bar.getDocument, lines 85-109 *)

RECURSIVE stripLines(_)
\* the lines of the text, each stripped, and joined (the text has no markup)
stripLines(text) ==
    IF "\n" \notin {text[i] : i \in 1..Len(text)} THEN text
    ELSE IF Blank(Before(text, Find(text, "\n") + 1))
    THEN stripLines(From(text, Find(text, "\n") + 1 + Run(text, Find(text, "\n") + 2, Whitespace)))
    ELSE Before(text, Find(text, "\n") + 1)
         \o stripLines(From(text, Find(text, "\n") + 1 + Run(text, Find(text, "\n") + 2, Whitespace)))

\* xml2bar.hl7charRef, &#x(([0-9A-Fa-f][0-9A-Fa-f])+);, matched at i
hl7charRef(s, i) ==
    IF Has(s, i, <<"&", "#", "x">>) THEN RefClose(s, i + 3, Run(s, i + 3, HexDigits)) ELSE 0

RECURSIVE subCharRef(_)
RECURSIVE subCharRefAt(_, _)
\* line 101: hl7charRef.sub(r'\\X\1\\', thisHL7message)
subCharRef(s) == subCharRefAt(s, Search(hl7charRef, s))

subCharRefAt(s, start) ==
    IF start = 0 THEN s
    ELSE SubSeq(s, 1, start - 1) \o <<BS, "X">> \o SubSeq(s, start + 3, hl7charRef(s, start) - 1)
         \o <<BS>> \o subCharRef(From(s, hl7charRef(s, start)))

RECURSIVE xmlUnescape(_)
\* the parser's reading of character data
xmlUnescape(s) ==
    IF s = <<>> THEN <<>>
    ELSE IF Has(s, 1, Amp) THEN <<"&">> \o xmlUnescape(From(s, 5))
    ELSE IF Has(s, 1, Lt) THEN <<"<">> \o xmlUnescape(From(s, 4))
    ELSE IF Has(s, 1, Gt) THEN <<">">> \o xmlUnescape(From(s, 4))
    ELSE <<Head(s)>> \o xmlUnescape(Tail(s))

\* '' is read as None
orNone(text) == IF text = <<>> THEN None ELSE text

\* character data as xml2bar reads it: lines 92-101, then the parser
readText(text) == IF text = None THEN None ELSE orNone(xmlUnescape(subCharRef(stripLines(text))))

RECURSIVE parsed(_)
\* lines 92-104 on one element of the saved document: comments are not kept
parsed(e) ==
    [e EXCEPT
        !.text = readText(e.text),
        !.tail = readText(e.tail),
        !.kids = Concat([i \in 1..Len(e.kids) |->
                           IF e.kids[i].kind = "comment" THEN <<>> ELSE <<parsed(e.kids[i])>>])]

\* lines 85-109
getDocument(file) == parsed(file)

-----------------------------------------------------------------------------
(* xml2bar.py: getSegment, getField, getComponent.  An exception or a fatal *)
(* exit inside them is a mark in the text they were building.               *)

Failures == {"TypeError", "AttributeError", "ValueError", "IndexError", "EX_DATAERR"}

Fail(how) == <<how>>

\* the first exception or exit marked in a text, if there is one
Failure(text) ==
    IF \A i \in 1..Len(text) : text[i] \notin Failures THEN <<>>
    ELSE <<text[CHOOSE i \in 1..Len(text) :
                    text[i] \in Failures /\ \A j \in 1..(i - 1) : text[j] \notin Failures]>>

\* text += value
Plus(value) == IF value = None THEN Fail("TypeError") ELSE value

RECURSIVE Pad(_, _)
\* while last < thisNo: text += sep; last += 1     (n is thisNo - last)
Pad(sep, n) == IF n <= 0 THEN <<>> ELSE Plus(sep) \o Pad(sep, n - 1)

\* int(tag[dotAt + 1:])
NumberOf(tag) == ParseInt(From(tag, Find(tag, ".") + 1))

Later(last, thisNo) == IF last < thisNo THEN thisNo ELSE last

\* xml2bar.py, lines 215-230: the escapes of a subcomponent
subCompEscapes(subComp) == IF subComp.kids = <<>> THEN <<>> ELSE Fail("EX_DATAERR")

RECURSIVE subComps(_, _, _, _)
\* xml2bar.py, lines 206-231
subComps(kids, k, lastSubCompNo, x) ==
    IF k > Len(kids) THEN <<>>
    ELSE IF NumberOf(kids[k].tag) = -1 THEN Fail("ValueError")
    ELSE Pad(x.subCompSep, NumberOf(kids[k].tag) - lastSubCompNo)
         \o Plus(kids[k].text) \o subCompEscapes(kids[k])
         \o subComps(kids, k + 1, Later(lastSubCompNo, NumberOf(kids[k].tag)), x)

\* xml2bar.py, lines 180-232
getComponent(component, x) ==
    IF component.kids = <<>>
    THEN Plus(component.text)
    ELSE IF component.kids[1].tag = escape
    THEN Plus(component.text) \o Fail("AttributeError")
    ELSE subComps(component.kids, 1, 1, x)

\* xml2bar.py, lines 150-164: one child of a field that has text and escapes
fieldEsc(e, x) ==
    IF e.tag # escape \/ e.V = None \/ x.escSep = None THEN Fail("EX_DATAERR")
    ELSE x.escSep \o e.V \o x.escSep \o (IF e.tail # None THEN e.tail ELSE <<>>)

RECURSIVE comps(_, _, _, _)
\* xml2bar.py, lines 166-176
comps(kids, k, lastCompNo, x) ==
    IF k > Len(kids) THEN <<>>
    ELSE IF NumberOf(kids[k].tag) = -1 THEN Fail("ValueError")
    ELSE Pad(x.compSep, NumberOf(kids[k].tag) - lastCompNo)
         \o getComponent(kids[k], x)
         \o comps(kids, k + 1, Later(lastCompNo, NumberOf(kids[k].tag)), x)

\* xml2bar.py, lines 139-177
getField(thisFieldElement, x) ==
    IF thisFieldElement.kids = <<>> \/ thisFieldElement.kids[1].tag = escape
    THEN Plus(thisFieldElement.text)
         \o Concat([i \in 1..Len(thisFieldElement.kids) |-> fieldEsc(thisFieldElement.kids[i], x)])
    ELSE comps(thisFieldElement.kids, 1, 1, x)

RECURSIVE fieldsUnseparated(_, _, _, _)
\* fields without the test of fieldNo against lastField (xml2bar.py, line 128)
fieldsUnseparated(kids, k, lastField, x) ==
    IF k > Len(kids) THEN <<>>
    ELSE IF kids[k].tag = Dot(MSH, 1) THEN fieldsUnseparated(kids, k + 1, 1, x)
    ELSE IF ParseInt(From(kids[k].tag, 4)) = -1 THEN Fail("ValueError")
    ELSE Pad(x.fieldSep, ParseInt(From(kids[k].tag, 4)) - lastField)
         \o getField(kids[k], x)
         \o fieldsUnseparated(kids, k + 1, Later(lastField, ParseInt(From(kids[k].tag, 4))), x)

RECURSIVE fields(_, _, _, _)
\* xml2bar.py, lines 121-135
fields(kids, k, lastField, x) ==
    IF k > Len(kids) THEN <<>>
    ELSE IF kids[k].tag = Dot(MSH, 1) THEN fields(kids, k + 1, 1, x)
    ELSE IF ParseInt(From(kids[k].tag, 4)) = -1 THEN Fail("ValueError")
    ELSE (IF ParseInt(From(kids[k].tag, 4)) = lastField
          THEN x.repSep
          ELSE Pad(x.fieldSep, ParseInt(From(kids[k].tag, 4)) - lastField))
         \o getField(kids[k], x)
         \o fields(kids, k + 1, Later(lastField, ParseInt(From(kids[k].tag, 4))), x)

RECURSIVE getSegment(_, _)
RECURSIVE getSegments(_, _, _)
\* getSegment returning the tag of a group after the segments of its children
\* (xml2bar.py, line 122 returning thisSegment)
getSegmentNamed(thisSegElement, x) ==
    IF thisSegElement.kind = "comment" THEN <<Fail("TypeError")>>
    ELSE IF Len(thisSegElement.tag) > 3
    THEN Append(getSegments(thisSegElement.kids, 1, x), thisSegElement.tag)
    ELSE <<thisSegElement.tag \o fields(thisSegElement.kids, 1, 0, x)>>

\* xml2bar.py, lines 112-136: the segments this element adds to Segments, in order
getSegment(thisSegElement, x) ==
    IF thisSegElement.kind = "comment" THEN <<Fail("TypeError")>>      \* len() of its tag
    ELSE IF Len(thisSegElement.tag) > 3
    THEN getSegments(thisSegElement.kids, 1, x)
    ELSE <<thisSegElement.tag \o fields(thisSegElement.kids, 1, 0, x)>>

\* xml2bar.py, lines 116-119 and 347-350: the segments of the children from the k-th on
getSegments(kids, k, x) ==
    IF k > Len(kids) THEN <<>> ELSE getSegment(kids[k], x) \o getSegments(kids, k + 1, x)

\* xml2bar.py, lines 333-344
separators(fieldSep, delimiterCharacters) ==
    [fieldSep |-> fieldSep,
     compSep |-> Slice(delimiterCharacters, 0, 1),
     repSep |-> Slice(delimiterCharacters, 1, 2),
     escSep |-> IF Len(delimiterCharacters) > 2 THEN Slice(delimiterCharacters, 2, 3) ELSE None,
     subCompSep |-> IF Len(delimiterCharacters) > 3 THEN Slice(delimiterCharacters, 3, 4) ELSE None,
     fatal |-> <<>>]

NoSeparators ==
    [fieldSep |-> None, compSep |-> None, repSep |-> None, escSep |-> None,
     subCompSep |-> None, fatal |-> <<>>]

Fatal(how) == [NoSeparators EXCEPT !.fatal = <<how>>]

\* xml2bar.py, lines 317-344: the delimiters, from the MSH element of the document
documentDelimiters(hl7xml) ==
    IF hl7xml.kids = <<>> THEN Fatal("IndexError")
    ELSE IF hl7xml.kids[1].tag # MSH THEN Fatal("EX_DATAERR")
    ELSE IF hl7xml.kids[1].kids = <<>> THEN Fatal("IndexError")
    ELSE IF hl7xml.kids[1].kids[1].tag # Dot(MSH, 1) THEN Fatal("EX_DATAERR")
    ELSE IF Len(hl7xml.kids[1].kids) < 2 THEN Fatal("IndexError")
    ELSE IF hl7xml.kids[1].kids[2].tag # Dot(MSH, 2) THEN Fatal("EX_DATAERR")
    ELSE IF hl7xml.kids[1].kids[2].text = None THEN Fatal("TypeError")
    ELSE IF Len(hl7xml.kids[1].kids[2].text) < 2 THEN Fatal("EX_DATAERR")
    ELSE separators(hl7xml.kids[1].kids[1].text, hl7xml.kids[1].kids[2].text)

\* xml2bar.py, lines 346-351
assemble(hl7xml, x) == getSegments(hl7xml.kids, 1, x)

\* the first exception or exit while the segments were assembled, if there is one
Failed(segments) == Concat([i \in 1..Len(segments) |-> Failure(segments[i])])

-----------------------------------------------------------------------------
(* The two programs on one message: bar2xml saves the document it decoded,  *)
(* xml2bar reads that document and writes the segments it assembles.        *)

\* bar2xml.py, lines 593-612
Save ==
    /\ pc = "decoded"
    /\ IF hl7XML.kind = "None"
       THEN /\ pc' = "exit"
            /\ status' = "AttributeError"
            /\ xmlFile' = xmlFile
       ELSE /\ pc' = "saved"
            /\ status' = status
            /\ xmlFile' = saved(hl7XML)
    /\ UNCHANGED <<Segments, segmentNo, delims, msgStruct, stack, retval, hl7XML, encoder, trip>>

\* xml2bar.py, lines 352-367: the segments are written if nothing went wrong
outcome(segments, x) ==
    IF Failed(segments) = <<>>
    THEN [Segments |-> segments, x |-> x, status |-> "EX_OK"]
    ELSE [Segments |-> <<>>, x |-> x, status |-> Failed(segments)[1]]

converted(hl7xml, x) ==
    IF x.fatal # <<>>
    THEN [Segments |-> <<>>, x |-> x, status |-> x.fatal[1]]
    ELSE outcome(assemble(hl7xml, x), x)

\* xml2bar.py, lines 315-367, for one document
convert(hl7xml) == converted(hl7xml, documentDelimiters(hl7xml))

xml2bar ==
    /\ pc = "saved"
    /\ encoder' = convert(getDocument(xmlFile))
    /\ pc' = IF encoder'.status = "EX_OK" THEN "done" ELSE "exit"
    /\ status' = encoder'.status
    /\ UNCHANGED <<Segments, segmentNo, delims, msgStruct, stack, retval, hl7XML, xmlFile, trip>>

-----------------------------------------------------------------------------
(* The round trip on the tree in memory: the segments that getSegment       *)
(* assembles from the tree createXML returned, with bar2xml's delimiters,   *)
(* are decoded again against the same structure.                            *)

\* bar2xml's delimiters as xml2bar holds them: an absent delimiter is None
sameDelimiters(d) ==
    [fieldSep |-> d.fieldSep, compSep |-> d.compSep, repSep |-> d.repSep,
     escSep |-> IF d.escChar = <<>> THEN None ELSE d.escChar,
     subCompSep |-> IF d.subCompSep = <<>> THEN None ELSE d.subCompSep,
     fatal |-> <<>>]

\* xml2bar.py, lines 346-351, on the tree in memory
encode(tree, d) == assemble(tree, sameDelimiters(d))

\* bar2xml.py, lines 591-592, with the arguments of the five parameters
Call(structure) == <<Frame(ContentOf(structure).list, structure, FALSE, FALSE, 0)>>

Again ==
    /\ pc = "decoded" /\ trip.round = 1
    /\ IF Failed(encode(hl7XML, delims)) # <<>>
       THEN /\ pc' = "exit"
            /\ status' = Failed(encode(hl7XML, delims))[1]
            /\ trip' = [round |-> 1, Segments |-> Segments, hl7XML |-> hl7XML,
                        status |-> Failed(encode(hl7XML, delims))[1]]
            /\ UNCHANGED <<Segments, segmentNo, stack, hl7XML>>
       ELSE /\ pc' = "decode"
            /\ status' = status
            /\ trip' = [round |-> 2, Segments |-> Segments, hl7XML |-> hl7XML,
                        status |-> "encoded"]
            /\ Segments' = encode(hl7XML, delims)
            /\ segmentNo' = 0
            /\ stack' = Call(msgStruct)
            /\ hl7XML' = NoElement
    /\ UNCHANGED <<delims, msgStruct, retval, xmlFile, encoder>>

-----
(* bar2xml.py, the driver: lines 485-592 *)

\* lines 507-524: the delimiter globals from the first segment
headerDelimiters(first) ==
    LET fieldSep == Slice(first, 3, 4)
        MSHfields == SplitOn(first, fieldSep)
        chars == MSHfields[2]
        subCompSep1 == IF Len(chars) < 4 THEN <<>> ELSE Slice(chars, 3, 4)
        escChar == IF Len(chars) < 3 THEN <<>> ELSE Slice(chars, 2, 3)
        subCompSep == IF Len(chars) < 3 THEN <<>> ELSE Slice(chars, 3, 4)
    IN  [fieldSep |-> fieldSep, compSep |-> Slice(chars, 0, 1), repSep |-> Slice(chars, 1, 2),
         escChar |-> escChar, subCompSep |-> subCompSep, fatal |-> Len(chars) < 2]

-----------------------------------------------------------------------------
(* The messages *)

Text1(a) == <<a>>
Bar == "|"

\* an MSH segment with the encoding characters and the message type given
Header(chars, type) ==
    Join(<<MSH, chars, Text1("A"), Text1("B"), Text1("C"), Text1("D"), Text1("E"), <<>>,
           type, Text1("1"), Text1("P"), <<"2", ".", "4">>>>, Bar)

Encoding == <<"^", "~", BS, "&">>
A01 == <<"A", "0", "1">>

\* <code>^A01^<structure>
TypeOf(structure) == Join(<<structure, A01, structure>>, "^")

SegmentTexts ==
    { PID \o <<Bar, "1">>,
      PID \o <<Bar, "1", Bar, Bar, "5", "^", "^", "^", "A", "&", "B", "~", "6", Bar>>,
      OBR \o <<Bar, "1", Bar, "a", "^", BS, "H", BS, "b">>,
      OBX \o <<Bar, "1", Bar, "T", "X", Bar, Bar, Bar, "a", BS, "H", BS, "b">>,
      NTE \o <<Bar, "1", Bar, Bar, BS, "H", BS, "a">>,
      ZZZ \o <<Bar, "1">> }

MaxSegments == 3
MaxDeep == 1

RECURSIVE Lists(_, _)
\* the sequences of at most n members of set
Lists(set, n) ==
    IF n = 0 THEN {<<>>}
    ELSE Lists(set, n - 1) \cup {Append(l, x) : l \in {m \in Lists(set, n - 1) : Len(m) = n - 1}, x \in set}

\* createXML is entered for a message whose header the driver accepted, with the
\* arguments of its five parameters: the root sequence, the structure name,
\* optional = False, isChoice = False and depth = 0
Init ==
    \E structure \in Structures :
    \E rest \in Lists(SegmentTexts, IF structure = CYC THEN MaxDeep ELSE MaxSegments) :
        /\ Segments = <<Header(Encoding, TypeOf(structure))>> \o rest
        /\ segmentNo = 0
        /\ delims = headerDelimiters(Segments[1])
        /\ msgStruct = structure
        /\ stack = Call(structure)
        /\ retval = NoElement
        /\ pc = "decode"
        /\ hl7XML = NoElement
        /\ xmlFile = NoElement
        /\ encoder = [Segments |-> <<>>, x |-> NoSeparators, status |-> "running"]
        /\ status = "running"
        /\ trip = [round |-> 1, Segments |-> <<>>, hl7XML |-> NoElement, status |-> "none"]

Next == createXML \/ Save \/ xml2bar \/ Again

Spec == Init /\ [][Next]_vars

-----------------------------------------------------------------------------
(* The escape / character codec on the text of one leaf.  The message is    *)
(* the header and one segment whose last field, component or subcomponent   *)
(* is the leaf; its segments are decoded as createXML decodes a matched     *)
(* segment, and the tree is encoded again in memory, or saved by bar2xml    *)
(* and converted by xml2bar.                                                *)

\* flat texts of a leaf are built from these: plain text, escape codes, and
\* hex character references of both letters, of one pair and of two
Pieces ==
    { Text1("a"),
      <<BS, "H", BS>>, <<BS, "N", BS>>, <<BS, ".", "b", "r", BS>>,
      <<BS, "X", "4", "1", BS>>, <<BS, "X", "4", "1", "4", "2", BS>>,
      <<BS, "Z", "4", "1", BS>> }

MaxPieces == 2

bold == <<"b", "o", "l", "d">>
after == <<"a", "f", "t", "e", "r">>

\* abc\H\bold\N\after
Highlighted == <<"a", "b", "c", BS, "H", BS>> \o bold \o <<BS, "N", BS>> \o after

LeafTexts == {Concat(l) : l \in Lists(Pieces, MaxPieces) \ {<<>>}} \cup {Highlighted}

\* the segment up to the leaf: PID.4 is a TX field, NTE.3 an FT field, TQ.2 a
\* TX component of OBR.2, ZT.2 a TX subcomponent of ZQ.2 of OBR.3
FieldPlaces == {PID \o <<Bar, "1", Bar, Bar, Bar>>, NTE \o <<Bar, "1", Bar, Bar>>}
ComponentPlaces == {OBR \o <<Bar, "1", Bar, "a", "^">>}
SubComponentPlaces == {OBR \o <<Bar, "1", Bar, Bar, "a", "^", "b", "&">>}
LeafPlaces == FieldPlaces \cup ComponentPlaces \cup SubComponentPlaces

CodecInit ==
    \E place \in LeafPlaces : \E text \in LeafTexts :
        /\ Segments = <<Header(Encoding, TypeOf(ADT)), place \o text>>
        /\ segmentNo = 0
        /\ delims = headerDelimiters(Segments[1])
        /\ msgStruct = ADT
        /\ stack = <<>>
        /\ retval = NoElement
        /\ pc = "leaf"
        /\ hl7XML = NoElement
        /\ xmlFile = NoElement
        /\ encoder = [Segments |-> <<>>, x |-> NoSeparators, status |-> "running"]
        /\ status = "running"
        /\ trip = [round |-> 1, Segments |-> <<>>, hl7XML |-> NoElement, status |-> "none"]

\* bar2xml.py, lines 208-272 for the header and for the segment of the leaf:
\* the element of each, appended to the element of the structure
decodeLeaf ==
    /\ pc = "leaf"
    /\ hl7XML' = Append_(Append_(Element(msgStruct), segElement(Segments[1], delims)),
                         segElement(Segments[2], delims))
    /\ segmentNo' = 2
    /\ pc' = "decoded"
    /\ UNCHANGED <<Segments, delims, msgStruct, stack, retval, xmlFile, encoder, status, trip>>

\* xml2bar.py, lines 346-351 on the tree in memory, with bar2xml's delimiters
encodeLeaf ==
    /\ pc = "decoded"
    /\ encoder' = outcome(encode(hl7XML, delims), sameDelimiters(delims))
    /\ pc' = IF encoder'.status = "EX_OK" THEN "encoded" ELSE "exit"
    /\ status' = encoder'.status
    /\ UNCHANGED <<Segments, segmentNo, delims, msgStruct, stack, retval, hl7XML, xmlFile, trip>>

CodecNext == decodeLeaf \/ encodeLeaf \/ Save \/ xml2bar

SpecCodec == CodecInit /\ [][CodecNext]_vars

-----------------------------------------------------------------------------
(* bar2xml.py, the driver on the first segment of a message: lines 493-592. *)
(* xml2bar.py on a document of a header alone.                              *)

ACK == <<"A", "C", "K">>
A04 == <<"A", "0", "4">>
A09 == <<"A", "0", "9">>
R01 == <<"R", "0", "1">>
XXX == <<"X", "X", "X">>

\* lines 436-458: the index of message structures, by message type and trigger
hl7messageStructures == (ADT :> (A01 :> ADT @@ A04 :> ADT)) @@ (ORU :> (R01 :> ORU))

\* lines 552-573: the structure is deduced from the type and the trigger
deduced(msgType, msgTrigger) ==
    IF msgType = <<>> THEN Fail("EX_DATAERR")
    ELSE IF msgTrigger = <<>>
    THEN (IF msgType = ACK THEN ACK ELSE Fail("EX_DATAERR"))
    ELSE IF msgType \notin DOMAIN hl7messageStructures THEN Fail("EX_DATAERR")
    ELSE IF msgTrigger \notin DOMAIN hl7messageStructures[msgType] THEN Fail("EX_DATAERR")
    ELSE hl7messageStructures[msgType][msgTrigger]

\* lines 543-573
structureOf(typeParts) ==
    IF Len(typeParts) = 1 THEN Fail("EX_DATAERR")
    ELSE IF Len(typeParts) = 3 /\ typeParts[3] # <<>> THEN typeParts[3]
    ELSE deduced(typeParts[1], typeParts[2])

\* lines 534-573: msgStruct for the field MSH.9, or the exit
resolved(struct, compSep) ==
    IF struct = <<>> THEN Fail("EX_DATAERR")
    ELSE IF struct = ACK THEN ACK
    ELSE structureOf(SplitOn(struct, compSep))

\* the delimiter globals before the first segment is parsed
unset ==
    [fieldSep |-> None, compSep |-> None, repSep |-> None, escChar |-> None,
     subCompSep |-> None, fatal |-> FALSE]

\* lines 495-503 without lines 501-503: a first segment that is not MSH is accepted
checkHeaderAnyCode ==
    /\ pc = "header"
    /\ IF Len(Segments[1]) < 20
       THEN pc' = "exit" /\ status' = "EX_DATAERR"
       ELSE pc' = "delimiters" /\ status' = status
    /\ UNCHANGED <<Segments, segmentNo, delims, msgStruct, stack, retval, hl7XML, xmlFile,
                   encoder, trip>>

\* lines 495-503
checkHeader ==
    /\ pc = "header"
    /\ IF Len(Segments[1]) < 20 \/ Slice(Segments[1], 0, 3) # MSH
       THEN pc' = "exit" /\ status' = "EX_DATAERR"
       ELSE pc' = "delimiters" /\ status' = status
    /\ UNCHANGED <<Segments, segmentNo, delims, msgStruct, stack, retval, hl7XML, xmlFile,
                   encoder, trip>>

\* lines 505-530 without lines 510 and 514-515: a delimiter the header does not
\* give is left as the message before set it
setDelimitersKept ==
    /\ pc = "delimiters"
    /\ delims' = [headerDelimiters(Segments[1]) EXCEPT
                    !.escChar = IF @ = <<>> /\ delims.escChar # None THEN delims.escChar ELSE @,
                    !.subCompSep = IF @ = <<>> /\ delims.subCompSep # None
                                   THEN delims.subCompSep ELSE @]
    /\ IF delims'.fatal \/ Len(SplitOn(Segments[1], delims'.fieldSep)) < 12
       THEN pc' = "exit" /\ status' = "EX_DATAERR"
       ELSE pc' = "structure" /\ status' = status
    /\ UNCHANGED <<Segments, segmentNo, msgStruct, stack, retval, hl7XML, xmlFile, encoder, trip>>

\* lines 505-530
setDelimiters ==
    /\ pc = "delimiters"
    /\ delims' = headerDelimiters(Segments[1])
    /\ IF delims'.fatal \/ Len(SplitOn(Segments[1], delims'.fieldSep)) < 12
       THEN pc' = "exit" /\ status' = "EX_DATAERR"
       ELSE pc' = "structure" /\ status' = status
    /\ UNCHANGED <<Segments, segmentNo, msgStruct, stack, retval, hl7XML, xmlFile, encoder, trip>>

\* lines 532-573
resolveStructure ==
    /\ pc = "structure"
    /\ IF Failure(resolved(SplitOn(Segments[1], delims.fieldSep)[9], delims.compSep)) # <<>>
       THEN msgStruct' = <<>> /\ pc' = "exit" /\ status' = "EX_DATAERR"
       ELSE /\ msgStruct' = resolved(SplitOn(Segments[1], delims.fieldSep)[9], delims.compSep)
            /\ pc' = "resolved" /\ status' = status
    /\ UNCHANGED <<Segments, segmentNo, delims, stack, retval, hl7XML, xmlFile, encoder, trip>>

\* lines 575-588: the structure file is read
readStructure ==
    /\ pc = "resolved"
    /\ IF msgStruct \notin Structures
       THEN pc' = "exit" /\ status' = "EX_DATAERR"
       ELSE IF ContentOf(msgStruct).list[1].ref # MSH
       THEN pc' = "exit" /\ status' = "EX_CONFIG"
       ELSE pc' = "header read" /\ status' = status
    /\ UNCHANGED <<Segments, segmentNo, delims, msgStruct, stack, retval, hl7XML, xmlFile,
                   encoder, trip>>

\* lines 590-592 for a message of the header alone: createXML returns the
\* element of the structure with the element of the header (lines 208-272)
decodeHeader ==
    /\ pc = "header read"
    /\ hl7XML' = Append_(Element(msgStruct), segElement(Segments[1], delims))
    /\ segmentNo' = 1
    /\ pc' = "decoded"
    /\ UNCHANGED <<Segments, delims, msgStruct, stack, retval, xmlFile, encoder, status, trip>>

\* the characters MSH.2 is drawn from, in the order drawn
DelimiterChars == <<"^", "~", BS, "&", "#", "$", "%">>
MaxEncoding == 5

Encodings == {SubSeq(DelimiterChars, 1, n) : n \in 0..MaxEncoding} \cup {<<"$", "%", "#">>}

Codes == {<<>>, ACK, ADT, XXX}
Triggers == {<<>>, A01, A09}
Named == {<<>>, ADT, ORU}
MaxParts == 4

\* the values of MSH.9: up to MaxParts components
MessageTypes ==
    {Join(SubSeq(<<code, trigger, named>>, 1, Min(n, 3)) \o [i \in 1..(n - 3) |-> Text1("X")], "^") :
        code \in Codes, trigger \in Triggers, named \in Named, n \in 1..MaxParts}

\* first segments the driver refuses: too short (of 8 and of 19 characters),
\* not a header, too few fields (of 20 characters and more)
Refused ==
    { MSH \o <<Bar>> \o Encoding,
      SubSeq(Header(Encoding, TypeOf(ADT)), 1, 19),
      PID \o <<Bar>> \o From(Header(Encoding, TypeOf(ADT)), 4),
      SubSeq(Header(Encoding, TypeOf(ADT)), 1, 20),
      Join(<<MSH, Encoding, ADT, ADT, ADT, ADT, ADT, <<>>, TypeOf(ADT)>>, Bar) }

\* the MSH element of a document whose MSH.2 holds these characters
HeaderElement(chars) ==
    [Element(MSH) EXCEPT
        !.kids = <<Leaf(Dot(MSH, 1), Text1(Bar)),
                   IF chars = <<>> THEN Element(Dot(MSH, 2)) ELSE Leaf(Dot(MSH, 2), chars),
                   Leaf(Dot(MSH, 3), Text1("A"))>>]

\* bar2xml is given a message of one segment, or xml2bar is given a document
\* of a header alone
HeaderInit ==
    /\ segmentNo = 0
    /\ delims = unset
    /\ msgStruct = None
    /\ stack = <<>>
    /\ retval = NoElement
    /\ hl7XML = NoElement
    /\ encoder = [Segments |-> <<>>, x |-> NoSeparators, status |-> "running"]
    /\ status = "running"
    /\ trip = [round |-> 1, Segments |-> <<>>, hl7XML |-> NoElement, status |-> "none"]
    /\ \/ /\ pc = "header"
          /\ xmlFile = NoElement
          /\ \/ \E chars \in Encodings : \E type \in MessageTypes :
                    Segments = <<Header(chars, type)>>
             \/ \E first \in Refused : Segments = <<first>>
       \/ /\ pc = "saved"
          /\ Segments = <<>>
          /\ \E chars \in Encodings :
                xmlFile = saved(Append_(Element(ADT), HeaderElement(chars)))

HeaderNext ==
    \/ checkHeader \/ setDelimiters \/ resolveStructure \/ readStructure
    \/ decodeHeader \/ Save \/ xml2bar

SpecHeader == HeaderInit /\ [][HeaderNext]_vars

-----------------------------------------------------------------------------
(* What the claims speak of *)

RECURSIVE Nodes(_, _)
\* the segment elements and the annotations below the children from the k-th
\* on, in document order
Nodes(kids, k) ==
    IF k > Len(kids) THEN <<>>
    ELSE (IF kids[k].kind = "comment" \/ Len(kids[k].tag) <= 3
          THEN <<kids[k]>>
          ELSE Nodes(kids[k].kids, 1)) \o Nodes(kids, k + 1)

RECURSIVE FrameNodes(_)
FrameNodes(k) ==
    IF k > Len(stack) THEN <<>> ELSE Nodes(stack[k].thisElement.kids, 1) \o FrameNodes(k + 1)

\* every node built so far for this message, in document order: in the
\* elements of the active calls, in the value just returned, in the tree
Produced == FrameNodes(1) \o Nodes(retval.kids, 1) \o Nodes(hl7XML.kids, 1)

\* node is what createXML makes of this segment text
IsNodeOf(node, segment) ==
    IF node.kind = "comment"
    THEN node = Comment(UnexpectedText \o segment) \/ node = Comment(segment)
    ELSE node = segElement(segment, delims)

\* the nodes are the nodes of the first n segments, one each, in order
Matches(nodes, n) ==
    /\ Len(nodes) = n
    /\ n <= Len(Segments)
    /\ \A i \in 1..n : IsNodeOf(nodes[i], Segments[i])

NoAnnotation(nodes) == \A i \in 1..Len(nodes) : nodes[i].kind # "comment"

\* decode emitted no diagnostic annotation
Conformant(tree) == NoAnnotation(Nodes(tree.kids, 1))

\* for a message of the header alone createXML returns the element of the
\* structure with the element of the header
HeaderAlone ==
    (pc = "decoded" /\ Len(Segments) = 1 /\ trip.round = 1) =>
        hl7XML = Append_(Element(msgStruct), segElement(Segments[1], delims))

\* the tree in memory was encoded, or the encoder failed on it
Encoded == trip.status # "none"

Last(s) == s[Len(s)]

-----------------------------------------------------------------------------
(* The claims *)

\* C1: for a message that decodes without a diagnostic annotation, encoding
\* the tree createXML returned, with the same delimiters, yields exactly the
\* original segment texts in the original order.
C1_RoundTrip ==
    (Encoded /\ Conformant(trip.hl7XML)) =>
        (trip.status = "encoded" /\ Segments = trip.Segments)

\* C2: for a tree decoded from a message without a diagnostic annotation, the
\* encoder's output is decoded again, under the same delimiters and grammar,
\* to a tree equal to the first.
C2_Idempotent ==
    (Encoded /\ Conformant(trip.hl7XML)) =>
        (trip.status = "encoded" /\ (pc # "decode" => hl7XML = trip.hl7XML))

\* C3: when the top-level createXML returns, the cursor is the number of
\* segments, and the tree holds one node (segment element or annotation) for
\* each segment, in input order.
C3_NothingDropped ==
    pc = "decoded" =>
        (segmentNo = Len(Segments) /\ Matches(Nodes(hl7XML.kids, 1), Len(Segments)))

\* the grammar requires a segment here, the sequence is not optional, and the
\* current segment is another one
C4_RequiredAbsent ==
    InLoop /\ Mismatch /\ ~IsGroup /\ here.minOccurs = "1" /\ ~top.optional

\* C4: when a required segment is absent, the step does not abort: it adds an
\* 'Unexpected segment' annotation with the text of the current segment, moves
\* the cursor on by one and, while segments remain, stays in the same call at
\* the same grammar position.
C4_UnexpectedRecovers ==
    [][C4_RequiredAbsent =>
          /\ pc' # "exit"
          /\ segmentNo' = segmentNo + 1
          /\ Last(Produced)' = Comment(UnexpectedText \o current)
          /\ (segmentNo' < Len(Segments) =>
                 /\ pc' = "decode"
                 /\ Len(stack') = Len(stack)
                 /\ top'.at = "loop"
                 /\ top'.sequenceList = top.sequenceList
                 /\ top'.sequenceAt = top.sequenceAt)]_vars

\* an annotation of an unexpected segment is followed by a decoded segment
C4_Witness ==
    /\ pc = "decoded"
    /\ \E i \in 1..(Len(Produced) - 1) :
          /\ Produced[i] = Comment(UnexpectedText \o Segments[i])
          /\ Produced[i + 1] = segElement(Segments[i + 1], delims)

\* createXML is entered with depth > 200
C5_TooDeep == pc = "decode" /\ top.at = "entry" /\ top.depth > DepthLimit

\* the decode of this message was given up: an exception, or a fatal exit
DecodeAborted == pc = "exit" /\ hl7XML.kind = "None"

\* the tree holds the bare annotation of the guard
C5_Guarded == \E i \in 1..Len(Produced) : Produced[i] = Comment(Segments[i])

\* C5: entered with depth > 200, createXML calls nothing: it returns an element
\* with the tag of the group, holding one annotation with the current segment,
\* and moves the cursor on by one.  So there are never more than 202 calls of
\* createXML active, and the decode of a message against the structure whose
\* group refers to itself is not given up: the tree it ends with holds the
\* annotation.
C5_DepthGuard ==
    /\ [][C5_TooDeep =>
             /\ pc' = "decode"
             /\ stack' = [SubSeq(stack, 1, Len(stack) - 1) EXCEPT ![Len(stack) - 1].at = "returned"]
             /\ retval' = Append_(Element(top.tag), Comment(current))
             /\ segmentNo' = segmentNo + 1]_vars
    /\ [](Len(stack) <= DepthLimit + 2)
    /\ [](msgStruct = CYC => ~DecodeAborted)
    /\ []((msgStruct = CYC /\ pc = "decoded" /\ Len(Segments) > 1) => C5_Guarded)

\* the guard has just returned its node to the call that made the 201st call
C5_Witness ==
    /\ pc = "decode" /\ Len(stack) = DepthLimit + 1 /\ top.at = "returned"
    /\ retval = Append_(Element(CYC_LOOP), Comment(Segments[segmentNo]))

\* C6: while a message is decoded the cursor stays or moves on by one, and the
\* nodes built so far are the nodes of the segments before the cursor, one
\* for each, in order.
C6_CursorForwardOnce ==
    /\ [](Matches(Produced, segmentNo))
    /\ [][pc = "decode" => segmentNo' \in {segmentNo, segmentNo + 1}]_vars

\* a decode that has matched segments and skipped one as unexpected
C6_Witness ==
    /\ pc = "decoded" /\ segmentNo = Len(Segments) /\ segmentNo >= 3
    /\ \E i \in 1..Len(Produced) : Produced[i].kind = "comment"
    /\ Matches(Produced, segmentNo)

\* the text of the leaf of a segment: what follows its last delimiter
LeafOf(segment) ==
    From(segment, CHOOSE i \in 1..Len(segment) :
                      /\ segment[i] \in {"|", "^", "&"}
                      /\ \A j \in (i + 1)..Len(segment) : segment[j] \notin {"|", "^", "&"})

\* the text holds a hex character reference \X..\ or \Z..\
HasMarker(text) == Search(charXref, text) # 0 \/ Search(charZref, text) # 0

\* the text holds an escape code the codec recognises
HasEscape(text) == Search(xmlReplacements, text) # 0

\* the leaf of the segment is a whole field
AtFieldLevel(segment) == \E place \in FieldPlaces : SubSeq(segment, 1, Len(place)) = place

\* the tree in memory was encoded: nothing was saved
InMemory == xmlFile.kind = "None" /\ pc \in {"encoded", "exit"}

\* xml2bar has converted the document bar2xml saved for the message
Converted == Segments # <<>> /\ xmlFile.kind # "None" /\ pc \in {"done", "exit"}

\* the element of the leaf in the tree of a leaf message
LeafElement(tree) ==
    IF AtFieldLevel(Segments[2]) THEN Last(tree.kids[2].kids)
    ELSE IF Last(tree.kids[2].kids).kids[2].tag = Dot(TQ, 2)
    THEN Last(tree.kids[2].kids).kids[2]
    ELSE Last(tree.kids[2].kids).kids[2].kids[2]

\* C7: a leaf text of plain text and recognised escape codes, decoded by
\* fixElement and encoded again from the leaf, is the text it was: at field,
\* component and subcomponent level, with the escape code first or not; and
\* abc\H\bold\N\after is the text abc, an escape H with the tail bold and an
\* escape N with the tail after.
C7_EscapeRoundTrip ==
    /\ (InMemory /\ ~HasMarker(LeafOf(Segments[2]))) =>
           (encoder.status = "EX_OK" /\ encoder.Segments = Segments)
    /\ (pc # "leaf" /\ LeafOf(Segments[2]) = Highlighted) =>
           /\ LeafElement(hl7XML).text = <<"a", "b", "c">>
           /\ LeafElement(hl7XML).kids = <<EscapeElement(Text1("H"), bold),
                                           EscapeElement(Text1("N"), after)>>

\* what C7 says, for the leaves that are whole fields
FieldEscapeRoundTrip ==
    (InMemory /\ ~HasMarker(LeafOf(Segments[2])) /\ AtFieldLevel(Segments[2])) =>
        (encoder.status = "EX_OK" /\ encoder.Segments = Segments)

RECURSIVE numeric(_)
\* the text with each hex character reference replaced by one numeric
\* character reference for each pair of hex characters
numeric(s) ==
    IF s = <<>> THEN <<>>
    ELSE IF charXref(s, 1) # 0
    THEN NumericRefs(SubSeq(s, 3, charXref(s, 1) - 1)) \o numeric(From(s, charXref(s, 1)))
    ELSE IF charZref(s, 1) # 0
    THEN NumericRefs(SubSeq(s, 3, charZref(s, 1) - 1)) \o numeric(From(s, charZref(s, 1)))
    ELSE <<Head(s)>> \o numeric(Tail(s))

\* a field of plain text and hex character references
MarkerField ==
    /\ AtFieldLevel(Segments[2])
    /\ HasMarker(LeafOf(Segments[2]))
    /\ ~HasEscape(LeafOf(Segments[2]))

\* C8: a hex character reference of either letter, of one pair or more, is
\* decoded to one numeric character reference for each pair, and the inverse
\* transform (xml2bar reading the document) restores the flat text exactly:
\* the same letter, the same grouping of pairs.
C8_MarkerRestored ==
    (Converted /\ MarkerField) =>
        /\ LeafElement(hl7XML).text = numeric(LeafOf(Segments[2]))
        /\ encoder.status = "EX_OK"
        /\ encoder.Segments = Segments

\* what C8 says of decoding alone
MarkerDecoded ==
    (pc # "leaf" /\ MarkerField) => LeafElement(hl7XML).text = numeric(LeafOf(Segments[2]))

\* what C8 says, for the fields of plain text and references \X..\ of one pair
SinglePairRestored ==
    (Converted /\ MarkerField
       /\ LeafOf(Segments[2]) \in {Concat(l) : l \in Lists({Text1("a"), <<BS, "X", "4", "1", BS>>},
                                                       MaxPieces)}) =>
        (encoder.status = "EX_OK" /\ encoder.Segments = Segments)

\* the fields of the first segment, and its second field
FieldsOf(first) == Split(first, first[4])
EncodingOf(first) == FieldsOf(first)[2]

\* the character at a position (from 0) of the encoding characters, '' past their end
CharAt(chars, n) == IF n < Len(chars) THEN <<chars[n + 1]>> ELSE <<>>

\* bar2xml has parsed the first segment for its delimiters, or has left at that
HeaderParsed == Segments # <<>> /\ delims # unset

\* xml2bar was given a document of a header alone, and has ended
DocumentConverted == Segments = <<>> /\ pc \in {"done", "exit"}

\* the characters of MSH.2 in the document xml2bar was given
DocumentEncoding ==
    IF getDocument(xmlFile).kids[1].kids[2].text = None THEN <<>>
    ELSE getDocument(xmlFile).kids[1].kids[2].text

\* an absent delimiter is '' for bar2xml and None for xml2bar
Absent(sep) == IF sep = <<>> THEN None ELSE sep

\* C9: fieldSep is the character after MSH; of the next field, position 0 is
\* componentSep, 1 repeatSep, 2 escapeSep and 3 subComponentSep; a field of 3
\* characters gives no subComponentSep, one of 2 neither that nor an
\* escapeSep, and fewer than 2 characters are a fatal data format error.
\* bar2xml on the header and xml2bar on the document derive the same set.
C9_Delimiters ==
    /\ HeaderParsed =>
          /\ delims.fieldSep = <<Segments[1][4]>>
          /\ Len(EncodingOf(Segments[1])) < 2 => (pc = "exit" /\ status = "EX_DATAERR")
          /\ Len(EncodingOf(Segments[1])) >= 2 =>
                /\ delims.compSep = CharAt(EncodingOf(Segments[1]), 0)
                /\ delims.repSep = CharAt(EncodingOf(Segments[1]), 1)
                /\ delims.escChar = CharAt(EncodingOf(Segments[1]), 2)
                /\ delims.subCompSep = CharAt(EncodingOf(Segments[1]), 3)
    /\ (Segments # <<>> /\ pc \in {"done", "exit"} /\ xmlFile.kind # "None") =>
          encoder.x = sameDelimiters(delims)
    /\ DocumentConverted =>
          IF Len(DocumentEncoding) < 2
          THEN pc = "exit" /\ status = "EX_DATAERR"
          ELSE /\ encoder.x.fieldSep = Text1(Bar)
               /\ encoder.x.compSep = CharAt(DocumentEncoding, 0)
               /\ encoder.x.repSep = CharAt(DocumentEncoding, 1)
               /\ encoder.x.escSep = Absent(CharAt(DocumentEncoding, 2))
               /\ encoder.x.subCompSep = Absent(CharAt(DocumentEncoding, 3))

\* what C9 says, but for a document whose MSH.2 element is empty
DelimitersButEmpty == (DocumentConverted => DocumentEncoding # <<>>) => C9_Delimiters

\* the components of MSH.9, and the k-th of them, '' if there is none
TypeParts == Split(FieldsOf(Segments[1])[9], delims.compSep[1])
Part(k) == IF k <= Len(TypeParts) THEN TypeParts[k] ELSE <<>>

\* the decision table; '' stands for DataFormatError
Table ==
    IF Part(3) # <<>> THEN Part(3)
    ELSE IF Part(1) = ACK /\ Part(2) = <<>> THEN ACK
    ELSE IF Part(1) = <<>> \/ Part(2) = <<>> THEN <<>>
    ELSE IF Part(1) \in DOMAIN hl7messageStructures
            /\ Part(2) \in DOMAIN hl7messageStructures[Part(1)]
    THEN hl7messageStructures[Part(1)][Part(2)]
    ELSE <<>>

\* bar2xml has resolved the structure, or has left at that
Resolved == msgStruct # None

\* C10: an explicit third part of MSH.9 is the structure, and the index is
\* not consulted; ACK with no trigger is ACK; no code and no explicit
\* structure, or no trigger and a code other than ACK, is a data format
\* error; otherwise the structure is the entry of the index for the code and
\* the trigger, and a data format error if there is none.
C10_StructureTable ==
    Resolved =>
        /\ msgStruct = Table
        /\ msgStruct = <<>> => (pc = "exit" /\ status = "EX_DATAERR")

\* what C10 says, for an MSH.9 of up to three components
UpToThreeParts == (Resolved /\ Len(TypeParts) <= 3) => C10_StructureTable

\* the first segment is shorter than 20 characters, or is not a header
EnvelopeRefused ==
    /\ Segments # <<>>
    /\ Len(Segments[1]) < 20 \/ Slice(Segments[1], 0, 3) # MSH

\* C11: once the first segment has been checked, a first segment shorter than
\* 20 characters or not starting with MSH has ended the conversion with
\* EX_DATAERR, before anything else was done: no delimiter was set, no
\* structure resolved, no tree built and no document saved; any other first
\* segment has passed the check.
C11_EnvelopeFatal ==
    (Segments # <<>> /\ pc # "header") =>
        IF EnvelopeRefused
        THEN /\ pc = "exit" /\ status = "EX_DATAERR"
             /\ delims = unset /\ msgStruct = None /\ segmentNo = 0
             /\ hl7XML = NoElement /\ xmlFile = NoElement
        ELSE pc = "exit" => delims # unset

\* a first segment of 19 characters that starts with MSH has been refused
C11_Witness ==
    /\ Segments # <<>> /\ Len(Segments[1]) = 19 /\ Slice(Segments[1], 0, 3) = MSH
    /\ pc = "exit" /\ status = "EX_DATAERR"

-----------------------------------------------------------------------------
(* Escapes under the delimiters of the message: bar2xml on a message of one *)
(* leaf, and xml2bar on a document whose leaf holds escape children, for    *)
(* encoding characters without an escape character, with \ and with #.      *)

EscapeEncodings == {<<"^", "~">>, Encoding, <<"^", "~", "#", "&">>}

\* leaf texts: plain text, and the code H between \ and between #
EscapeTexts ==
    { <<"a">>, <<BS, "H", BS>>, <<"a", BS, "H", BS, "b">>,
      <<"#", "H", "#">>, <<"a", "#", "H", "#", "b">> }

EscapeLevels == {"field", "component", "subcomponent"}

\* an element that is not an escape, as a child of the leaf of this level
OtherChild(level) ==
    IF level = "field" THEN Leaf(Dot(CX, 1), <<"c">>)
    ELSE IF level = "component" THEN Leaf(Dot(HD, 1), <<"c">>)
    ELSE Leaf(Dot(ST, 1), <<"c">>)

\* the children of the leaf: escapes that are well formed, an escape without
\* its V attribute, and escapes mixed with another element, in both orders
EscapeChildren(level) ==
    { <<EscapeElement(<<"H">>, <<"b">>)>>,
      <<EscapeElement(<<"H">>, <<"b">>), EscapeElement(<<"N">>, None)>>,
      <<EscapeElement(None, <<"b">>)>>,
      <<EscapeElement(<<"H">>, <<"b">>), OtherChild(level)>>,
      <<OtherChild(level), EscapeElement(<<"H">>, <<"b">>)>> }

\* <PID> with the leaf as PID.3, as CX.4 of PID.3, or as HD.2 of CX.4 of PID.3
LeafNode(tag, text, kids) == [Leaf(tag, text) EXCEPT !.kids = kids]

Under(tag, first, leaf) == [Element(tag) EXCEPT !.kids = <<first, leaf>>]

LeafSegment(level, text, kids) ==
    IF level = "field"
    THEN Under(PID, Leaf(Dot(PID, 1), <<"1">>), LeafNode(Dot(PID, 3), text, kids))
    ELSE IF level = "component"
    THEN Under(PID, Leaf(Dot(PID, 1), <<"1">>),
               Under(Dot(PID, 3), Leaf(Dot(CX, 1), <<"5">>), LeafNode(Dot(CX, 4), text, kids)))
    ELSE Under(PID, Leaf(Dot(PID, 1), <<"1">>),
               Under(Dot(PID, 3), Leaf(Dot(CX, 1), <<"5">>),
                     Under(Dot(CX, 4), Leaf(Dot(HD, 1), <<"A">>),
                           LeafNode(Dot(HD, 2), text, kids))))

\* the document of a header and of the segment of the leaf
LeafDocument(chars, level, text, kids) ==
    Append_(Append_(Element(ADT), HeaderElement(chars)), LeafSegment(level, text, kids))

EscapeInit ==
    /\ segmentNo = 0
    /\ msgStruct = ADT
    /\ stack = <<>>
    /\ retval = NoElement
    /\ hl7XML = NoElement
    /\ encoder = [Segments |-> <<>>, x |-> NoSeparators, status |-> "running"]
    /\ status = "running"
    /\ trip = [round |-> 1, Segments |-> <<>>, hl7XML |-> NoElement, status |-> "none"]
    /\ \/ /\ pc = "leaf"
          /\ xmlFile = NoElement
          /\ \E chars \in EscapeEncodings : \E place \in LeafPlaces : \E text \in EscapeTexts :
                /\ Segments = <<Header(chars, TypeOf(ADT)), place \o text>>
                /\ delims = headerDelimiters(Segments[1])
       \/ /\ pc = "saved"
          /\ Segments = <<>>
          /\ delims = unset
          /\ \E chars \in EscapeEncodings : \E level \in EscapeLevels :
             \E text \in {<<"a">>, None} : \E kids \in EscapeChildren(level) :
                xmlFile = saved(LeafDocument(chars, level, text, kids))

EscapeNext == decodeLeaf \/ encodeLeaf \/ Save \/ xml2bar

SpecEscape == EscapeInit /\ [][EscapeNext]_vars

RECURSIVE HasEscapeNode(_)
\* the tree holds an escape element
HasEscapeNode(e) == e.tag = escape \/ \E i \in 1..Len(e.kids) : HasEscapeNode(e.kids[i])

\* the text holds an escape code between two escape characters of the message
Delimited(text, esc) ==
    /\ esc # <<>>
    /\ HasEscape([i \in 1..Len(text) |->
                    IF text[i] = esc[1] THEN BS ELSE IF text[i] = BS THEN "?" ELSE text[i]])

\* the tree the encoder was given: the tree in memory, or the document read
Given == IF xmlFile.kind = "None" THEN hl7XML ELSE getDocument(xmlFile)

\* the encoder has ended on a tree with an escape element, for a message
\* without escape character
EscapeWithoutSeparator ==
    /\ encoder.status # "running"
    /\ encoder.x.fatal = <<>> /\ encoder.x.escSep = None
    /\ HasEscapeNode(Given)

\* C12: for a message without escape character the decoder builds no escape
\* element, whatever the text of the leaf, and the encoder given one ends with
\* EX_DATAERR; for a message with an escape character, the decoder builds an
\* escape element exactly when the text of the leaf holds a code between two
\* escape characters of that message.
C12_EscapeSep ==
    /\ (Segments # <<>> /\ pc # "leaf") =>
            (HasEscapeNode(hl7XML) <=> Delimited(LeafOf(Segments[2]), delims.escChar))
    /\ EscapeWithoutSeparator => encoder.status = "EX_DATAERR"

\* what C12 says of the encoder, for any kind of failure: no escape element is
\* written for a message without escape character
NeverConsumed == EscapeWithoutSeparator => encoder.status # "EX_OK"

\* in a document of a header and of the segment of a leaf: the level of the
\* leaf and the leaf
BuiltLevel(tree) ==
    IF Last(tree.kids[2].kids[2].kids).tag # Dot(CX, 4) THEN "field"
    ELSE IF Last(tree.kids[2].kids[2].kids[2].kids).tag # Dot(HD, 2) THEN "component"
    ELSE "subcomponent"

BuiltLeaf(tree) ==
    IF BuiltLevel(tree) = "field" THEN tree.kids[2].kids[2]
    ELSE IF BuiltLevel(tree) = "component" THEN tree.kids[2].kids[2].kids[2]
    ELSE tree.kids[2].kids[2].kids[2].kids[2]

\* xml2bar was given a document of a header and of the segment of a leaf, and
\* has ended
LeafConverted == Segments = <<>> /\ pc \in {"done", "exit"}

\* the leaf mixes escape children with other elements; an escape child of the
\* leaf has no V attribute
Mixed(leaf) ==
    \E i, j \in 1..Len(leaf.kids) : leaf.kids[i].tag = escape /\ leaf.kids[j].tag # escape

NoCode(leaf) == \E i \in 1..Len(leaf.kids) : leaf.kids[i].tag = escape /\ leaf.kids[i].V = None

\* the cases in which the encoder is to refuse the leaf
Refusable(leaf, x) == x.escSep = None \/ NoCode(leaf) \/ Mixed(leaf)

\* C13: for a leaf with escape children, at field, component and subcomponent
\* level, the encoder ends with EX_DATAERR, and with nothing else, when the
\* message has no escape character, when an escape has no V attribute, and
\* when escapes are mixed with other elements in either order; and it does not
\* end with EX_DATAERR when the escapes are well formed and the message has an
\* escape character.
C13_EscapeErrors ==
    LeafConverted =>
        (Refusable(BuiltLeaf(Given), encoder.x) <=> encoder.status = "EX_DATAERR")

\* what C13 says, for a field that has text and whose first child is an escape
FieldEscapeErrors ==
    (/\ LeafConverted
     /\ BuiltLevel(Given) = "field"
     /\ BuiltLeaf(Given).text # None
     /\ BuiltLeaf(Given).kids[1].tag = escape) => 
        /\ Refusable(BuiltLeaf(Given), encoder.x) <=> encoder.status = "EX_DATAERR"
        /\ encoder.status \in {"EX_DATAERR", "EX_OK"}
        /\ encoder.status = "EX_DATAERR" => encoder.Segments = <<>>

-----------------------------------------------------------------------------
(* Two decodes whose steps interleave.  createXML and the driver work on    *)
(* the module globals of bar2xml.py (lines 79-89: Segments, segmentNo, the  *)
(* delimiters, messageRoot); the parameters and the locals of createXML     *)
(* are each decode's own.  The decode that runs has its locals in stack,    *)
(* retval, pc, and its result in hl7XML; those of the other, which waits,   *)
(* are kept in trip.other.  Both messages are of the structure ADT, which   *)
(* has no groups.                                                           *)

Independent ==
    { <<Header(Encoding, TypeOf(ADT)), PID \o <<Bar, "1">>>>,
      <<Header(Encoding, TypeOf(ADT)),
        PID \o <<Bar, "1", Bar, Bar, "5", "^", "^", "^", "A", "&", "B", "~", "6", Bar>>,
        NTE \o <<Bar, "1", Bar, Bar, BS, "H", BS, "a">>>> }

Waiting(own) ==
    [own |-> own, stack |-> <<>>, retval |-> NoElement, pc |-> "start", hl7XML |-> NoElement]

SharedInit ==
    /\ Segments = <<>>
    /\ segmentNo = 0
    /\ delims = unset
    /\ msgStruct = None
    /\ stack = <<>>
    /\ retval = NoElement
    /\ pc = "start"
    /\ hl7XML = NoElement
    /\ xmlFile = NoElement
    /\ encoder = [Segments |-> <<>>, x |-> NoSeparators, status |-> "running"]
    /\ status = "running"
    /\ \E one \in Independent : \E two \in Independent :
            trip = [id |-> 1, own |-> one, other |-> Waiting(two)]

\* bar2xml.py, lines 494-592: a decode sets the globals for its message and
\* calls createXML
Begin ==
    /\ pc = "start"
    /\ Segments' = trip.own
    /\ segmentNo' = 0
    /\ delims' = headerDelimiters(trip.own[1])
    /\ msgStruct' = ADT
    /\ stack' = Call(ADT)
    /\ pc' = "decode"
    /\ UNCHANGED <<retval, hl7XML, xmlFile, encoder, status, trip>>

\* the decode that runs is suspended and the other one goes on: the locals
\* change places, the globals stay
Switch ==
    /\ trip.other.pc \in {"start", "decode"}
    /\ stack' = trip.other.stack
    /\ retval' = trip.other.retval
    /\ pc' = trip.other.pc
    /\ hl7XML' = trip.other.hl7XML
    /\ trip' = [id |-> 3 - trip.id, own |-> trip.other.own,
                other |-> [own |-> trip.own, stack |-> stack, retval |-> retval, pc |-> pc,
                           hl7XML |-> hl7XML]]
    /\ UNCHANGED <<Segments, segmentNo, delims, msgStruct, xmlFile, encoder, status>>

SharedNext == Begin \/ Switch \/ Enter \/ Match \/ SkipOptional \/ Unexpected \/ EndOfList

SpecShared == SharedInit /\ [][SharedNext]_vars

RECURSIVE Flat(_, _, _)
\* the element of the structure with the elements of the segments from the
\* k-th on appended: the tree of a message of ADT that has its segments in the
\* order of the structure
Flat(root, segments, k) ==
    IF k > Len(segments) THEN root
    ELSE Flat(Append_(root, segElement(segments[k], headerDelimiters(segments[1]))), segments, k + 1)

\* decoded alone, a message of Independent gives this tree
FlatAlone ==
    (pc = "decoded" /\ trip.round = 1 /\ msgStruct = ADT /\ Segments \in Independent) =>
        hl7XML = Flat(Element(ADT), Segments, 1)

\* C14: when the steps of two decodes interleave, each decode returns the tree
\* its message gives when it is decoded alone.
C14_Interleaved ==
    /\ pc \in {"decoded", "exit"} =>
            (pc = "decoded" /\ hl7XML = Flat(Element(ADT), trip.own, 1))
    /\ trip.other.pc \in {"decoded", "exit"} =>
            (trip.other.pc = "decoded"
             /\ trip.other.hl7XML = Flat(Element(ADT), trip.other.own, 1))

-----------------------------------------------------------------------------
(* A batch: bar2xml.py, lines 486-612, and xml2bar.py, lines 314-367, on    *)
(* two files, one after the other.  The module globals keep, at the start   *)
(* of a message, what the message before left in them.  trip holds the      *)
(* batch and the number of the message at work.                             *)

BatchEncodings == {<<"^", "~">>, Encoding, <<"^", "~", "#">>}

BatchTypes == {TypeOf(ADT), Join(<<ADT, A01>>, "^"), Join(<<ORU, R01>>, "^")}

\* messages of a header alone, and one the driver refuses
BatchMessages ==
    {<<Header(chars, type)>> : chars \in BatchEncodings, type \in BatchTypes}
        \cup {<<SubSeq(Header(Encoding, TypeOf(ADT)), 1, 19)>>}

BatchDocuments == {saved(Append_(Element(ADT), HeaderElement(chars))) : chars \in Encodings}

BatchInit ==
    /\ segmentNo = 0
    /\ delims = unset
    /\ msgStruct = None
    /\ stack = <<>>
    /\ retval = NoElement
    /\ hl7XML = NoElement
    /\ encoder = [Segments |-> <<>>, x |-> NoSeparators, status |-> "running"]
    /\ status = "running"
    /\ \/ /\ pc = "header"
          /\ xmlFile = NoElement
          /\ \E one \in BatchMessages : \E two \in BatchMessages :
                /\ trip = [batch |-> <<one, two>>, k |-> 1]
                /\ Segments = one
       \/ /\ pc = "saved"
          /\ Segments = <<>>
          /\ \E one \in BatchDocuments : \E two \in BatchDocuments :
                /\ trip = [batch |-> <<one, two>>, k |-> 1]
                /\ xmlFile = one

\* bar2xml.py, lines 486-494: the next file of the batch is read
nextMessage ==
    /\ pc = "saved" /\ Segments # <<>> /\ trip.k < Len(trip.batch)
    /\ Segments' = trip.batch[trip.k + 1]
    /\ trip' = [trip EXCEPT !.k = @ + 1]
    /\ pc' = "header"
    /\ UNCHANGED <<segmentNo, delims, msgStruct, stack, retval, hl7XML, xmlFile, encoder, status>>

\* xml2bar.py, lines 314-315: the next file of the batch is read
nextDocument ==
    /\ pc = "done" /\ Segments = <<>> /\ trip.k < Len(trip.batch)
    /\ xmlFile' = trip.batch[trip.k + 1]
    /\ trip' = [trip EXCEPT !.k = @ + 1]
    /\ pc' = "saved"
    /\ UNCHANGED <<Segments, segmentNo, delims, msgStruct, stack, retval, hl7XML, encoder, status>>

BatchNext ==
    \/ checkHeader \/ setDelimiters \/ resolveStructure \/ readStructure
    \/ decodeHeader \/ Save \/ nextMessage \/ xml2bar \/ nextDocument

SpecBatch == BatchInit /\ [][BatchNext]_vars

\* the message at work, and what it gives when it is converted alone: the
\* structure, the tree, and for a document the segments
AtWork == trip.batch[trip.k]

StructureAlone(first) ==
    resolved(SplitOn(first, headerDelimiters(first).fieldSep)[9], headerDelimiters(first).compSep)

TreeAlone(first) ==
    Append_(Element(StructureAlone(first)), segElement(first, headerDelimiters(first)))

-----------------------------------------------------------------------------
(* Field repetitions (bar2xml.py 209-221): messages of a header and a PID   *)
(* segment whose fields hold no, one or two repetitions.                    *)

RepeatTexts == {<<>>, <<"a">>, <<"a", "~", "b">>}

\* an MSH segment whose third field is the one given
RepeatHeader(application) ==
    Join(<<MSH, Encoding, application, Text1("B"), Text1("C"), Text1("D"), Text1("E"), <<>>,
           TypeOf(ADT), Text1("1"), Text1("P"), <<"2", ".", "4">>>>, Bar)

RepeatInit ==
    \E application \in RepeatTexts \ {<<>>} : \E one \in RepeatTexts :
    \E two \in RepeatTexts : \E three \in RepeatTexts :
        /\ Segments = <<RepeatHeader(application), Join(<<PID, one, two, three>>, Bar)>>
        /\ segmentNo = 0
        /\ delims = headerDelimiters(Segments[1])
        /\ msgStruct = ADT
        /\ stack = <<>>
        /\ retval = NoElement
        /\ pc = "leaf"
        /\ hl7XML = NoElement
        /\ xmlFile = NoElement
        /\ encoder = [Segments |-> <<>>, x |-> NoSeparators, status |-> "running"]
        /\ status = "running"
        /\ trip = [round |-> 1, Segments |-> <<>>, hl7XML |-> NoElement, status |-> "none"]

RepeatNext == decodeLeaf \/ encodeLeaf \/ Save \/ xml2bar

SpecRepeat == RepeatInit /\ [][RepeatNext]_vars

\* the text of field n of a segment: what stands after its n-th field
\* separator, the header counting its field separator as field 1
FieldText(segment, n) ==
    IF Slice(segment, 0, 3) = MSH
    THEN SplitOn(segment, Text1(Bar))[n]
    ELSE SplitOn(segment, Text1(Bar))[n + 1]

\* how many field nodes of a segment element carry the tag of field n
FieldNodes(element, n) ==
    Cardinality({i \in 1..Len(element.kids) : element.kids[i].tag = Dot(element.tag, n)})

\* the repetitions a field text holds: none when empty, else one more than
\* its repetition separators
Repetitions(text) == IF text = <<>> THEN 0 ELSE Len(SplitOn(text, Text1("~")))

\* the fields of the k-th segment of the message that are looked at: fields
\* 2 to 4 of the header, the three fields of the PID segment
Filled(k) == IF k = 1 THEN 2..4 ELSE 1..3

\* C16: once a message is decoded, every field of every segment has one field
\* node per repetition of its text, field 2 of the header alone being kept
\* whole as one node; so field 2 of PID and field 3 of MSH are split
C16_RepetitionsSplit ==
    (Segments # <<>> /\ pc # "leaf") =>
        \A k \in 1..2 : \A n \in Filled(k) :
            FieldNodes(hl7XML.kids[k], n) =
                IF k = 1 /\ n = 2 THEN 1 ELSE Repetitions(FieldText(Segments[k], n))

\* what the code does instead: a field is split when its segment is not the
\* header and it is not field 2; every header field and field 2 of any other
\* segment is one node whatever repetition separators it holds
RepetitionsAsCoded ==
    (Segments # <<>> /\ pc # "leaf") =>
        \A k \in 1..2 : \A n \in Filled(k) :
            FieldNodes(hl7XML.kids[k], n) =
                IF k = 1 \/ n = 2
                THEN (IF FieldText(Segments[k], n) = <<>> THEN 0 ELSE 1)
                ELSE Repetitions(FieldText(Segments[k], n))

-----------------------------------------------------------------------------
(* The text of a leaf with escape children (xml2bar.py 144-164, 185-232),   *)
(* under SpecEscape.                                                        *)

\* the leaf has direct text and children that are all escapes with a code
WellFormed(leaf) ==
    /\ leaf.text # None
    /\ leaf.kids # <<>>
    /\ \A i \in 1..Len(leaf.kids) : leaf.kids[i].tag = escape /\ leaf.kids[i].V # None

\* escSep + code + escSep + tail, for the escapes from the k-th on
RECURSIVE Rewrapped(_, _, _)
Rewrapped(kids, k, esc) ==
    IF k > Len(kids) THEN <<>>
    ELSE esc \o kids[k].V \o esc \o (IF kids[k].tail = None THEN <<>> ELSE kids[k].tail)
             \o Rewrapped(kids, k + 1, esc)

\* the text the leaf is to give
LeafText(leaf, esc) == leaf.text \o Rewrapped(leaf.kids, 1, esc)

\* C17: a leaf with direct text and well-formed escape children, in a message
\* with an escape character, is encoded, at field, component and subcomponent
\* level alike, as its text followed by escSep + code + escSep + tail for each
\* escape in order; the conversion ends with EX_OK.
C17_LeafEscapes ==
    (/\ LeafConverted
     /\ encoder.x.fatal = <<>> /\ encoder.x.escSep # None
     /\ WellFormed(BuiltLeaf(Given))) =>
        /\ encoder.status = "EX_OK"
        /\ LeafOf(encoder.Segments[2]) = LeafText(BuiltLeaf(Given), encoder.x.escSep)

\* what C17 says, for a leaf that is a field
FieldLeafEscapes ==
    (/\ LeafConverted
     /\ encoder.x.fatal = <<>> /\ encoder.x.escSep # None
     /\ BuiltLevel(Given) = "field"
     /\ WellFormed(BuiltLeaf(Given))) =>
        /\ encoder.status = "EX_OK"
        /\ LeafOf(encoder.Segments[2]) = LeafText(BuiltLeaf(Given), encoder.x.escSep)

\* a well-formed leaf below field level: the conversion ends with
\* AttributeError for a component, with EX_DATAERR for a subcomponent
DeeperLeafEscapes ==
    (/\ LeafConverted
     /\ encoder.x.fatal = <<>> /\ encoder.x.escSep # None
     /\ BuiltLevel(Given) # "field"
     /\ WellFormed(BuiltLeaf(Given))) =>
        encoder.status = IF BuiltLevel(Given) = "component" THEN "AttributeError" ELSE "EX_DATAERR"

-----------------------------------------------------------------------------
(* The segments xml2bar writes for the tree it read (xml2bar.py 112-136 and *)
(* 346-351), under Spec: the documents are those bar2xml saved.             *)

RECURSIVE SegmentNodes(_, _)
\* the Segment nodes among these children and below them, in document order;
\* a node with a tag of more than three characters is a group
SegmentNodes(kids, k) ==
    IF k > Len(kids) THEN <<>>
    ELSE (IF Len(kids[k].tag) > 3 THEN SegmentNodes(kids[k].kids, 1) ELSE <<kids[k]>>)
         \o SegmentNodes(kids, k + 1)

\* xml2bar has converted the document it read
Written == xmlFile.kind # "None" /\ pc = "done" /\ encoder.status = "EX_OK"

FieldNo(field) == ParseInt(From(field.tag, 4))

\* the field children of a segment that have field number n
Numbered(kids, n) == SelectSeq(kids, LAMBDA field : FieldNo(field) = n)

\* the texts of the repetitions of field n, one repSep between two of them
Slot(kids, n, x) ==
    Join([i \in 1..Len(Numbered(kids, n)) |-> getField(Numbered(kids, n)[i], x)], x.repSep[1])

Ordered(kids) == \A i \in 1..(Len(kids) - 1) : FieldNo(kids[i]) <= FieldNo(kids[i + 1])

Highest(kids) == IF kids = <<>> THEN 0 ELSE FieldNo(Last(kids))

\* the text of a segment, cut at its field separators: the code, then for a
\* segment that is not the header field n as piece n + 1, so that n separators
\* stand before it; for the header the delimiter field as piece 2 and field n
\* as piece n, field 1 giving no text
AsPositioned(element, pieces, x) ==
    /\ pieces[1] = element.tag
    /\ Len(pieces) = Highest(element.kids) + (IF element.tag = MSH THEN 0 ELSE 1)
    /\ \A n \in 1..Highest(element.kids) :
          IF element.tag = MSH
          THEN n = 1 \/ pieces[n] = Slot(element.kids, n, x)
          ELSE pieces[n + 1] = Slot(element.kids, n, x)

\* each segment written, against the Segment node in its place
AllPositioned(nodes, segments, x) ==
    \A k \in 1..Min(Len(segments), Len(nodes)) :
        Ordered(nodes[k].kids) => AsPositioned(nodes[k], SplitOn(segments[k], x.fieldSep), x)

\* C18: the text written for a Segment node whose fields are in non-decreasing
\* order is its code, then each field after as many field separators as its
\* position (one fewer for the header, whose field 1 gives no text, so that
\* one field separator stands between MSH and the delimiter field), the
\* repetitions of one field being separated by one repSep.
C18_FieldPositions ==
    Written => AllPositioned(SegmentNodes(Given.kids, 1), encoder.Segments, encoder.x)

EmptyAndRepeated(nodes, segments, x) ==
    \E k \in 2..Len(segments) :
        /\ Len(Numbered(nodes[k].kids, 3)) = 2
        /\ Numbered(nodes[k].kids, 2) = <<>>
        /\ SplitOn(segments[k], x.fieldSep)[3] = <<>>

\* a segment with an empty field between two others and with a field of two
\* repetitions has been written, after its header
C18_Witness ==
    /\ Written
    /\ Len(encoder.Segments) >= 2
    /\ Slice(encoder.Segments[1], 0, 5) = MSH \o <<"|", "^">>
    /\ EmptyAndRepeated(SegmentNodes(Given.kids, 1), encoder.Segments, encoder.x)

\* one segment per node, each with the code of its node
OnePerNode(nodes, segments) ==
    /\ Len(segments) = Len(nodes)
    /\ \A k \in 1..Len(segments) : Slice(segments[k], 0, 3) = nodes[k].tag

\* C19: the segments written are one per Segment node of the tree, in document
\* order, each starting with the code of its node; a group, at any depth, adds
\* the segments of its descendants in its own place and none of its own.
C19_OnePerSegment ==
    Written => OnePerNode(SegmentNodes(Given.kids, 1), encoder.Segments)

\* a header, then a group of two groups
GroupsInGroup(tree) ==
    /\ Len(tree.kids) = 2
    /\ Len(tree.kids[2].tag) > 3
    /\ Len(tree.kids[2].kids) = 2
    /\ Len(tree.kids[2].kids[1].tag) > 3
    /\ Len(tree.kids[2].kids[2].tag) > 3

\* a tree with a group in a group, followed by another group, has been written
C19_Witness ==
    /\ Written
    /\ Len(encoder.Segments) = 3
    /\ GroupsInGroup(Given)

-----------------------------------------------------------------------------
(* The occurrence counter of createXML (bar2xml.py 200-204 and 276-285):    *)
(* messages of structure ADT, whose segments stand at MSH 1..1, PID 1..1,   *)
(* NTE 0..unbounded and OBX 0..2, with up to MaxRepeated segments after the *)
(* header.                                                                  *)

MaxRepeated == 4

RepeatedTexts == {PID \o <<Bar, "1">>, NTE \o <<Bar, "1">>, OBX \o <<Bar, "1">>}

OccursInit ==
    \E rest \in Lists(RepeatedTexts, MaxRepeated) :
        /\ Segments = <<Header(Encoding, TypeOf(ADT))>> \o rest
        /\ segmentNo = 0
        /\ delims = headerDelimiters(Segments[1])
        /\ msgStruct = ADT
        /\ stack = Call(ADT)
        /\ retval = NoElement
        /\ pc = "decode"
        /\ hl7XML = NoElement
        /\ xmlFile = NoElement
        /\ encoder = [Segments |-> <<>>, x |-> NoSeparators, status |-> "running"]
        /\ status = "running"
        /\ trip = [round |-> 1, Segments |-> <<>>, hl7XML |-> NoElement, status |-> "none"]

OccursNext == Enter \/ Match \/ SkipOptional \/ Unexpected \/ EndOfList

SpecOccurs == OccursInit /\ [][OccursNext]_vars

\* a step of the loop that matches the current segment and goes on in the
\* same call (lines 200-284 up to a continue)
MatchStep ==
    /\ InLoop /\ HasSegment /\ ~Mismatch
    /\ pc' = "decode" /\ Len(stack') = Len(stack)
    /\ segmentNo' = segmentNo + 1

\* the locals of the call after that step, against those before it
Counted(was, f, node, seg) ==
    /\ f.lastSeg = seg
    /\ f.occurs = IF was.lastSeg = None \/ was.lastSeg # seg THEN 1 ELSE was.occurs + 1
    /\ f.sequenceAt =
          IF node.maxOccurs = "unbounded" THEN was.sequenceAt
          ELSE IF f.occurs >= IntOf(node.maxOccurs) THEN was.sequenceAt + 1
          ELSE was.sequenceAt

\* how many segment elements of this code the element holds
Holds(element, code) ==
    Cardinality({i \in 1..Len(element.kids) :
                    element.kids[i].kind = "element" /\ element.kids[i].tag = code})

\* no bounded position of the list has matched more segments than its bound
WithinBounds(element, list) ==
    \A p \in 1..Len(list) :
        list[p].maxOccurs # "unbounded" => Holds(element, list[p].ref) <= IntOf(list[p].maxOccurs)

Building == IF pc = "decode" THEN top.thisElement ELSE hl7XML

\* C20: a match counts from zero when its code is not that of the match
\* before it in the call, and from the counter otherwise; the position stays
\* after a match at an unbounded position, and after a match at a bounded one
\* it advances exactly when the counter has reached the bound; so no bounded
\* position matches more segments than its bound.
C20_Occurrences ==
    /\ [][MatchStep => Counted(top, stack'[Len(stack)], here, Slice(current, 0, 3))]_vars
    /\ [](pc \in {"decode", "decoded"} => WithinBounds(Building, ContentOf(ADT).list))

\* the decoder has returned with two OBX matched at the position bounded by
\* 2 and a third one left unread
C20_Witness ==
    /\ pc = "decoded"
    /\ Holds(hl7XML, OBX) = 2
    /\ segmentNo < Len(Segments)
    /\ Slice(Segments[segmentNo + 1], 0, 3) = OBX

-----------------------------------------------------------------------------
(* Groups (bar2xml.py 146-199): createXML on messages of every structure,   *)
(* among them OPT (an optional group of two required segments), REQ (a      *)
(* required group whose only segment is optional) and SEQ (a required group *)
(* of one segment, met once, before an optional segment).                   *)

MaxGrouped == 3

GroupStructures == Structures \cup {OPT, REQ, SEQ}

GroupTexts == {PID \o <<Bar, "1">>, OBR \o <<Bar, "1">>, NTE \o <<Bar, "1">>, OBX \o <<Bar, "1">>}

GroupsInit ==
    \E structure \in GroupStructures :
    \E rest \in Lists(GroupTexts, IF structure = CYC THEN MaxDeep ELSE MaxGrouped) :
        /\ Segments = <<Header(Encoding, TypeOf(structure))>> \o rest
        /\ segmentNo = 0
        /\ delims = headerDelimiters(Segments[1])
        /\ msgStruct = structure
        /\ stack = Call(structure)
        /\ retval = NoElement
        /\ pc = "decode"
        /\ hl7XML = NoElement
        /\ xmlFile = NoElement
        /\ encoder = [Segments |-> <<>>, x |-> NoSeparators, status |-> "running"]
        /\ status = "running"
        /\ trip = [round |-> 1, Segments |-> <<>>, hl7XML |-> NoElement, status |-> "none"]

SpecGroups == GroupsInit /\ [][createXML]_vars

\* the loop is at a required segment reference that the next segment does
\* not match, in a call made with optional = True
AtRequiredInOptional ==
    /\ InLoop /\ Mismatch /\ ~IsGroup
    /\ here.minOccurs # "0" /\ top.optional

\* the calls below the running one, as they are while it runs
Callers(s) == SubSeq(s, 1, Len(s) - 1)

\* C21: at a required segment reference that the next segment does not match,
\* a call made with optional = True returns at once what it has built (None
\* if nothing), with the cursor where it was and nothing added for the segment.
C21_OptionalStop ==
    [][AtRequiredInOptional =>
          /\ segmentNo' = segmentNo
          /\ pc' = "decode"
          /\ retval' = top.thisElement
          /\ stack' = [Callers(stack) EXCEPT ![Len(stack) - 1].at = "returned"]]_vars

\* the optional group OPT.TWO has returned with its PID alone, the next
\* segment not being the OBR it requires
C21_Witness ==
    /\ pc = "decode" /\ top.at = "returned"
    /\ retval # NoElement /\ retval.tag = OPT_TWO
    /\ Len(retval.kids) = 1 /\ retval.kids[1].tag = PID
    /\ HasSegment /\ Slice(current, 0, 3) # OBR

\* the call that runs has a group call's value in hand (line 168)
GroupReturned == pc = "decode" /\ top.at = "returned"

\* the step ends the running call with this value
Returns(value) ==
    /\ segmentNo' = segmentNo
    /\ IF Len(stack) = 1
       THEN pc' = "decoded" /\ hl7XML' = value
       ELSE pc' = "decode" /\ Len(stack') = Len(stack) - 1 /\ retval' = value

\* the step goes on in the running call, at this grammar position, with this
\* element, the cursor moved by n
GoesOn(sequenceAt, element, n) ==
    /\ segmentNo' = segmentNo + n
    /\ pc' = "decode" /\ Len(stack') = Len(stack)
    /\ stack'[Len(stack)].at = "loop"
    /\ stack'[Len(stack)].sequenceAt = sequenceAt
    /\ stack'[Len(stack)].thisElement = element

\* unexpected-segment recovery (lines 191-199): the segment is annotated and
\* passed, and the call goes on if segments remain
Recovers ==
    IF segmentNo + 1 < Len(Segments)
    THEN GoesOn(top.sequenceAt, Append_(Tagged(top), Comment(UnexpectedText \o current)), 1)
    ELSE /\ segmentNo' = segmentNo + 1
         /\ Len(stack') < Len(stack)

\* the outcome of a group call that gave a subtree, or gave nothing for a
\* group with minOccurs 0
GroupSettled ==
    IF retval # NoElement
    THEN IF HasSegment
         THEN GoesOn(top.sequenceAt, Append_(Tagged(top), retval), 0)
         ELSE Returns(Append_(Tagged(top), retval))
    ELSE GoesOn(top.sequenceAt + 1, top.thisElement, 0)

\* C22: a subtree returned by a group call is attached and, while segments
\* remain, the same grammar position is tried again; nothing returned for a
\* group with minOccurs 0 moves the grammar position on, the cursor staying;
\* nothing returned for a group with another minOccurs makes the call return
\* what it has built if it was made with optional = True, and otherwise
\* annotates the segment as unexpected and passes it.
C22_GroupOutcome ==
    [][GroupReturned =>
          IF retval # NoElement \/ here.minOccurs = "0" THEN GroupSettled
          ELSE IF top.optional THEN Returns(top.thisElement)
          ELSE Recovers]_vars

\* what the code does: nothing returned for a group with a minOccurs other
\* than 0 makes the call return what it has built, whatever its optional
GroupOutcomeAsCoded ==
    [][GroupReturned =>
          IF retval # NoElement \/ here.minOccurs = "0" THEN GroupSettled
          ELSE Returns(top.thisElement)]_vars

\* a decode has returned with segments left unread and no annotation in its
\* tree, after a required group gave nothing
AbandonedSilently ==
    /\ pc = "decoded" /\ msgStruct = REQ
    /\ segmentNo < Len(Segments)
    /\ \A i \in 1..Len(Produced) : Produced[i].kind # "comment"

\* a group call has returned None (Absent) to the call that made it
ReturnedNone == GroupReturned /\ retval = NoElement

\* what holds of every value a call returns: None leaves the cursor where it
\* was at entry, with the nodes of the calling calls alone behind it, and an
\* element holds a segment or an annotation
ValueAndCursor ==
    /\ ReturnedNone => segmentNo = Len(Produced)
    /\ (GroupReturned /\ retval # NoElement) => Nodes(retval.kids, 1) # <<>>

\* C23: createXML returns None only from a call made with optional = True,
\* that is for a group with minOccurs 0, never for a required group or for
\* the root; it returns None exactly when it matched no segment and made no
\* annotation, and the cursor is then where it was at entry.
C23_AbsentOnlyOptional ==
    /\ ValueAndCursor
    /\ ReturnedNone => here.minOccurs = "0"
    /\ pc = "decoded" => hl7XML # NoElement

\* what the code does: None comes from any call that matched and annotated
\* nothing, the root apart, which always matches the header
AbsentAsCoded ==
    /\ ValueAndCursor
    /\ pc = "decoded" => hl7XML # NoElement

-----------------------------------------------------------------------------
(* The scan of fixElement for escape codes (bar2xml.py 310-343): leaves of  *)
(* the types TX and FT whose text is made of up to MaxScan pieces.          *)

MaxScan == 3

\* plain text, the six recognised codes, and the end of a code without its
\* start, which after \H makes two codes that overlap
ScanPieces ==
    { Text1("a"),
      <<BS, "H", BS>>, <<BS, "N", BS>>, <<BS, ".", "b", "r", BS>>,
      <<BS, ".", "s", "p", " ", "2", BS>>, <<BS, ".", "i", "n", "+", "1", BS>>,
      <<BS, ".", "t", "i", "-", "1", BS>>,
      <<"N", BS>> }

ScanTexts == {Concat(l) : l \in Lists(ScanPieces, MaxScan) \ {<<>>}}

ScanInit ==
    \E place \in LeafPlaces : \E text \in ScanTexts :
        /\ Segments = <<Header(Encoding, TypeOf(ADT)), place \o text>>
        /\ segmentNo = 0
        /\ delims = headerDelimiters(Segments[1])
        /\ msgStruct = ADT
        /\ stack = <<>>
        /\ retval = NoElement
        /\ pc = "leaf"
        /\ hl7XML = NoElement
        /\ xmlFile = NoElement
        /\ encoder = [Segments |-> <<>>, x |-> NoSeparators, status |-> "running"]
        /\ status = "running"
        /\ trip = [round |-> 1, Segments |-> <<>>, hl7XML |-> NoElement, status |-> "none"]

ScanNext == decodeLeaf \/ encodeLeaf

SpecScan == ScanInit /\ [][ScanNext]_vars

\* the code of an escape between its two delimiters
Wrapped(V) == <<BS>> \o V \o <<BS>>

\* the text that stands before the k-th escape child: the direct text of the
\* leaf, or the tail of the child before it
PieceBefore(leaf, k) == IF k = 1 THEN leaf.text ELSE leaf.kids[k - 1].tail

\* the text after the last escape child, the direct text if there is none
LastPiece(leaf) == IF leaf.kids = <<>> THEN leaf.text ELSE Last(leaf.kids).tail

\* the text, the codes and the tails of the leaf, put together again
Reassembled(leaf) ==
    leaf.text \o Concat([k \in 1..Len(leaf.kids) |->
                            Wrapped(leaf.kids[k].V) \o leaf.kids[k].tail])

\* the leaf is what a scan from left to right makes of the text: its pieces
\* are the text, each child is a recognised code that is the earliest one in
\* what was left to scan, and no code is left over
Scanned(leaf, text) ==
    /\ Reassembled(leaf) = text
    /\ \A k \in 1..Len(leaf.kids) :
          /\ leaf.kids[k].tag = escape
          /\ xmlReplacements(Wrapped(leaf.kids[k].V), 1) = Len(leaf.kids[k].V) + 2
          /\ Search(xmlReplacements, PieceBefore(leaf, k) \o Wrapped(leaf.kids[k].V))
                = Len(PieceBefore(leaf, k)) + 1
    /\ ~HasEscape(LastPiece(leaf))

-----------------------------------------------------------------------------
(* Conformance of a segment list to the grammar of its structure, for the   *)
(* structures whose groups are defined and do not hold themselves.          *)

Grammatical == GroupStructures \ {CYC, BAD}

RECURSIVE AfterList(_, _, _, _)
RECURSIVE AfterRef(_, _, _, _)
RECURSIVE Once(_, _, _)
\* the numbers of segments that can have been read after one occurrence of
\* what node refers to, starts being the numbers read before it
Once(node, starts, codes) ==
    IF Len(node.ref) <= 3
    THEN {i + 1 : i \in {j \in starts : j < Len(codes) /\ codes[j + 1] = node.ref}}
    ELSE IF ContentOf(node.ref).kind = "sequence"
    THEN AfterList(ContentOf(node.ref).list, 1, starts, codes)
    ELSE UNION {AfterRef(ContentOf(node.ref).list[a], 0, starts, codes) :
                    a \in 1..Len(ContentOf(node.ref).list)}

\* ... after the occurrences of node that its minOccurs and maxOccurs allow,
\* n of them having been read already
AfterRef(node, n, starts, codes) ==
    IF starts = {} \/ n > Len(codes) THEN {}
    ELSE (IF n >= IntOf(node.minOccurs) THEN starts ELSE {})
         \cup (IF node.maxOccurs # "unbounded" /\ n >= IntOf(node.maxOccurs) THEN {}
               ELSE AfterRef(node, n + 1, Once(node, starts, codes), codes))

\* ... after the references of the list from the p-th on
AfterList(list, p, starts, codes) ==
    IF p > Len(list) THEN starts
    ELSE AfterList(list, p + 1, AfterRef(list[p], 0, starts, codes), codes)

\* every segment reference and group occurs within its minOccurs..maxOccurs,
\* in grammar order
Conforms(structure, segments) ==
    Len(segments) \in AfterList(ContentOf(structure).list, 1, {0},
                                [i \in 1..Len(segments) |-> Slice(segments[i], 0, 3)])

\* a decode of a message that conforms to its structure has returned
ConformingDecoded == pc = "decoded" /\ msgStruct \in Grammatical /\ Conforms(msgStruct, Segments)

\* C25: a message that conforms to the grammar of its structure is decoded
\* without annotation, every segment into a Segment node; so a segment that
\* matches a later grammar position is not reported as unexpected when the
\* position of a required group, already matched, is tried again.
C25_ConformingClean ==
    ConformingDecoded => (segmentNo = Len(Segments) /\ Conformant(hl7XML))

\* what C25 says, for the structure ADT, which has no group
FlatConformingClean ==
    (ConformingDecoded /\ msgStruct = ADT) => (segmentNo = Len(Segments) /\ Conformant(hl7XML))

\* the message [MSH, PID, NTE] of structure SEQ has been decoded with NTE
\* annotated as unexpected in a second SEQ.ONE element
RetryAnnotated ==
    /\ ConformingDecoded /\ msgStruct = SEQ
    /\ Len(hl7XML.kids) = 3
    /\ hl7XML.kids[3].tag = SEQ_ONE
    /\ hl7XML.kids[3].kids[1].kind = "comment"

-----------------------------------------------------------------------------
(* The reads of Segments[segmentNo] (bar2xml.py 140, 152, 191, 201, 208).   *)

\* the running call is about to read Segments[segmentNo]: at its entry, for
\* the depth guard, or at the test of the loop, for the comparison, the
\* annotation and the match
ReadsSegment ==
    /\ pc = "decode" /\ stack # <<>>
    /\ \/ top.at = "entry"
       \/ top.at = "loop" /\ top.sequenceAt < Len(top.sequenceList)

\* C26: whenever createXML reads Segments[segmentNo], segmentNo is within
\* the list: every call is entered with a segment still unread, and the loop
\* goes on after the cursor moved only if segments remain; no read fails.
C26_CursorInRange ==
    /\ ReadsSegment => (0 <= segmentNo /\ segmentNo < Len(Segments))
    /\ status # "IndexError"

\* a group call is entered, two calls deep, on the last segment of a message
\* of four
C26_Witness ==
    /\ ReadsSegment
    /\ top.at = "entry" /\ Len(stack) >= 3
    /\ Len(Segments) = 4 /\ segmentNo = 3

-----------------------------------------------------------------------------
(* Termination of createXML, by a variant: a value of the active calls that *)
(* every step which leaves createXML running makes smaller, in an order     *)
(* that has no infinite descent.                                            *)

\* every group element among these children holds a segment or an annotation
GroupsFilled(kids) ==
    \A i \in 1..Len(kids) :
        (kids[i].kind = "element" /\ Len(kids[i].tag) > 3) => Nodes(kids[i].kids, 1) # <<>>

\* the subtrees attached so far have each taken a segment: there are as many
\* nodes as segments read, and no group element without a node
Progress ==
    /\ Len(Produced) = segmentNo
    /\ \A k \in 1..Len(stack) : GroupsFilled(stack[k].thisElement.kids)
    /\ retval # NoElement => Nodes(retval.kids, 1) # <<>>

PhaseRank(at) == CASE at = "entry" -> 3 [] at = "loop" -> 2 [] at = "call" -> 1 [] OTHER -> 0

MaxList == 4

\* the rank of one call: the segments not yet in a node of this call or of
\* the calls below it, then the grammar positions it has left, then how far
\* its pass of the loop is
FrameRank(f, unread) ==
    (unread * (MaxList + 1) + (Len(f.sequenceList) - f.sequenceAt)) * 4 + PhaseRank(f.at)

\* the nodes in the element of one call
Attached(f) == Len(Nodes(f.thisElement.kids, 1))

\* the rank of the k-th call of s, nodes being the number of nodes in the
\* elements of the calls below it
RankAt(s, k, nodes) == FrameRank(s[k], Len(Segments) - nodes - Attached(s[k]))

RECURSIVE Smaller(_, _, _, _, _)
\* the ranks of the calls of a, from the k-th on, are before those of b in
\* the lexicographic order, a sequence being before the sequences it is the
\* start of; the calls below the k-th have equal ranks
Smaller(a, b, k, nodesA, nodesB) ==
    IF k > Len(b) THEN FALSE
    ELSE IF k > Len(a) THEN TRUE
    ELSE IF RankAt(a, k, nodesA) # RankAt(b, k, nodesB)
    THEN RankAt(a, k, nodesA) < RankAt(b, k, nodesB)
    ELSE Smaller(a, b, k + 1, nodesA + Attached(a[k]), nodesB + Attached(b[k]))

\* the ranks are natural numbers and the calls are never more than the depth
\* guard allows, so the order of the rank sequences is well founded
Bounded ==
    /\ Len(stack) <= DepthLimit + 2
    /\ \A k \in 1..Len(stack) :
          /\ Len(stack[k].sequenceList) <= MaxList
          /\ stack[k].sequenceAt <= Len(stack[k].sequenceList)

\* C27: createXML terminates on every message: every step that leaves it
\* running makes the ranks of its calls smaller, because it returns, moves
\* the grammar position or the cursor on, or attaches a subtree, which holds
\* at least one node and so has taken at least one segment; a grammar
\* position is thus tried again at most once for each segment that was left.
C27_Terminates ==
    /\ [][(pc = "decode" /\ pc' = "decode") =>
             Smaller(stack', stack, 1, 0, 0)]_vars
    /\ [](pc = "decode" => (Progress /\ Bounded))

\* the recursive structure CYC has been decoded by the depth guard, and a
\* message of structure CHO after its group position was tried again for
\* each of its segments
C27_Witness ==
    \/ /\ pc = "decoded" /\ msgStruct = CYC /\ segmentNo = Len(Segments)
    \/ /\ pc = "decoded" /\ msgStruct = CHO /\ Len(hl7XML.kids) = 4 /\ segmentNo = 4

-----------------------------------------------------------------------------
(* Groups whose content is a choice (bar2xml.py 159-168, 182-199, 274-275): *)
(* CHO = [MSH, CHO.ALT 1..unbounded, NTE 0..1], CHO.ALT one of PID, OBR,    *)
(* OBX.                                                                     *)

Alternatives ==
    {ContentOf(CHO_ALT).list[a].ref : a \in 1..Len(ContentOf(CHO_ALT).list)}

\* a message of structure CHO whose segments after the header are all
\* alternatives of CHO.ALT, taken from this set, has been decoded
ChoiceDecoded(allowed) ==
    /\ pc = "decoded" /\ msgStruct = CHO
    /\ Len(Segments) >= 2
    /\ \A i \in 2..Len(Segments) : Slice(Segments[i], 0, 3) \in allowed

\* the tree holds, after the header, one CHO.ALT element for each segment,
\* with the Segment node of that segment alone
OneAlternativeEach ==
    /\ segmentNo = Len(Segments)
    /\ Len(hl7XML.kids) = Len(Segments)
    /\ \A i \in 2..Len(Segments) :
          /\ hl7XML.kids[i].tag = CHO_ALT
          /\ hl7XML.kids[i].kids = <<segElement(Segments[i], delims)>>

\* C28: in a group whose content is a choice, a segment whose code is the
\* reference of any alternative is matched as that alternative, one
\* alternative for each occurrence of the group, and is not reported as
\* unexpected because an alternative before it did not match.
C28_AnyAlternative == ChoiceDecoded(Alternatives) => OneAlternativeEach

\* what C28 says, for segments that match the first alternative
FirstAlternative == ChoiceDecoded({ContentOf(CHO_ALT).list[1].ref}) => OneAlternativeEach

\* the message [MSH, OBR] of structure CHO has been decoded with OBR, the
\* second alternative, annotated as unexpected
SecondAnnotated ==
    /\ ChoiceDecoded({OBR}) /\ Len(Segments) = 2
    /\ hl7XML.kids[2].tag = CHO_ALT
    /\ hl7XML.kids[2].kids = <<Comment(UnexpectedText \o Segments[2])>>

-----------------------------------------------------------------------------
(* The driver's call of createXML as it is written (bar2xml.py 590-592),    *)
(* for messages of the header alone.                                        *)

\* def createXML(sequenceList, tag, optional, isChoice, depth), line 123
createXMLParameters == <<"sequenceList", "tag", "optional", "isChoice", "depth">>

\* createXML(segmentList, msgStruct, False, 0), line 592
driverArguments(segmentList, structure) == <<segmentList, structure, FALSE, 0>>

\* lines 591-592: a call whose arguments are not one for each parameter
\* raises TypeError before the body of createXML is entered
callCreateXML ==
    /\ pc = "header read"
    /\ segmentNo' = 0
    /\ IF Len(driverArguments(ContentOf(msgStruct).list, msgStruct)) # Len(createXMLParameters)
       THEN pc' = "exit" /\ status' = "TypeError" /\ stack' = stack
       ELSE pc' = "decode" /\ status' = status /\ stack' = Call(msgStruct)
    /\ UNCHANGED <<Segments, delims, msgStruct, retval, hl7XML, xmlFile, encoder, trip>>

DriverInit == HeaderInit /\ pc = "header"

DriverNext == checkHeader \/ setDelimiters \/ resolveStructure \/ readStructure \/ callCreateXML

SpecDriver == DriverInit /\ [][DriverNext]_vars

\* the message has passed the check of its header, the resolution of its
\* structure and the reading of the structure file, and the driver has gone on
PastStructure ==
    /\ pc \notin {"header", "delimiters", "structure", "resolved", "header read"}
    /\ status \notin {"EX_DATAERR", "EX_CONFIG"}

\* C29: for a message that passed validation and structure resolution the
\* driver starts createXML with the cursor at 0 and an argument for each of
\* the five parameters: the root sequence, the structure name, optional =
\* False, isChoice = False, depth = 0; the call does not fail.
C29_DecoderStarted ==
    PastStructure =>
        /\ status # "TypeError"
        /\ pc = "decode" /\ segmentNo = 0 /\ stack = Call(msgStruct)

\* what the code does: every message that gets as far as the call ends there
DriverCallFails == PastStructure => (pc = "exit" /\ status = "TypeError" /\ hl7XML = NoElement)

\* a message with an MSH.2 of four characters and the type ADT^A01^ADT has
\* ended at the call
CallReached ==
    /\ PastStructure /\ msgStruct = ADT
    /\ Segments = <<Header(Encoding, TypeOf(ADT))>>

-----------------------------------------------------------------------------
(* Fields of a type with components, with as many components and            *)
(* subcomponents as the message cares to send (bar2xml.py 232-260).         *)

MaxShape == 3

\* a component: empty, plain, or of two or three subcomponents
ShapeParts ==
    { <<>>, Text1("a"), <<"a", "&", "b">>, <<"a", "&", "b", "&", "c">>, <<"&", "b">> }

\* the fields of at most MaxShape components that are not empty
ShapeTexts == {Join(l, "^") : l \in Lists(ShapeParts, MaxShape) \ {<<>>}} \ {<<>>}

\* OBR.2 is of type TQ (two components, none with subcomponents), OBR.3 of
\* type ZQ (two components, the second of type ZT with two subcomponents)
ShapePlaces == {OBR \o <<Bar, "1", Bar>>, OBR \o <<Bar, "1", Bar, Bar>>}

ShapeInit ==
    \E place \in ShapePlaces : \E text \in ShapeTexts :
        /\ Segments = <<Header(Encoding, TypeOf(ADT)), place \o text>>
        /\ segmentNo = 0
        /\ delims = headerDelimiters(Segments[1])
        /\ msgStruct = ADT
        /\ stack = <<>>
        /\ retval = NoElement
        /\ pc = "leaf"
        /\ hl7XML = NoElement
        /\ xmlFile = NoElement
        /\ encoder = [Segments |-> <<>>, x |-> NoSeparators, status |-> "running"]
        /\ status = "running"
        /\ trip = [round |-> 1, Segments |-> <<>>, hl7XML |-> NoElement, status |-> "none"]

\* the exception raised while the element was built, if any
Thrown(built) == IF Raised(built) = <<>> THEN "none" ELSE Raised(built)[1]

\* bar2xml.py, lines 208-272 for the header and for the segment that follows:
\* an exception raised while the fields are decoded is not caught
decodeSegment ==
    /\ pc = "leaf"
    /\ IF Thrown(segElement(Segments[2], delims)) # "none"
       THEN /\ pc' = "exit"
            /\ status' = Thrown(segElement(Segments[2], delims))
            /\ UNCHANGED <<hl7XML, segmentNo>>
       ELSE /\ hl7XML' = Append_(Append_(Element(msgStruct), segElement(Segments[1], delims)),
                                 segElement(Segments[2], delims))
            /\ segmentNo' = 2
            /\ pc' = "decoded"
            /\ status' = status
    /\ UNCHANGED <<Segments, delims, msgStruct, stack, retval, xmlFile, encoder, trip>>

ShapeNext == decodeSegment \/ encodeLeaf

SpecShape == ShapeInit /\ [][ShapeNext]_vars

\* the codes of the declared positions that hold a part which is not empty
ExpectedTags(parts, bits) ==
    Concat([k \in 1..Len(parts) |->
               IF parts[k] = <<>> \/ k > Len(bits) THEN <<>> ELSE <<bits[k]>>])

TagsOf(kids) == [k \in 1..Len(kids) |-> kids[k].tag]

\* the part at position k is of a type with subcomponents
Composite(parts, bits, k) ==
    /\ k <= Len(bits) /\ parts[k] # <<>>
    /\ sequenceOf(componentTypeOf(bits[k])) # NoList

\* the child of node for the part at the declared position k
ChildFor(node, parts, bits, k) == node.kids[Len(ExpectedTags(SubSeq(parts, 1, k), bits))]

\* node is the element of a field whose components are parts, of a type that
\* declares bits: a child for each part that is not empty, tagged with the
\* code declared at the position of the part, and so one level down
TaggedAsDeclared(node, parts, bits) ==
    /\ TagsOf(node.kids) = ExpectedTags(parts, bits)
    /\ \A k \in 1..Len(parts) :
          Composite(parts, bits, k) =>
              TagsOf(ChildFor(node, parts, bits, k).kids)
                  = ExpectedTags(SplitOn(parts[k], <<"&">>),
                                 sequenceOf(componentTypeOf(bits[k])))

\* a part that is not empty stands after the last declared position, at the
\* level of the components or one level down
Overflows(parts, bits) ==
    \/ \E k \in 1..Len(parts) : k > Len(bits) /\ parts[k] # <<>>
    \/ \E k \in 1..Len(parts) :
          /\ Composite(parts, bits, k)
          /\ \E n \in 1..Len(SplitOn(parts[k], <<"&">>)) :
                /\ n > Len(sequenceOf(componentTypeOf(bits[k])))
                /\ SplitOn(parts[k], <<"&">>)[n] # <<>>

\* the last field of the segment, and the sequence its type declares
ShapeField(Fields) == Last(Fields)
ShapeBits(Fields) == sequenceOf(fieldTypeOf(Dot(OBR, Len(Fields) - 1)))

\* the segment after the header is in the tree, its last field tagged as declared
ShapeDecoded(Fields) ==
    /\ hl7XML # NoElement
    /\ Len(hl7XML.kids) = 2
    /\ Last(hl7XML.kids[2].kids).tag = Dot(OBR, Len(Fields) - 1)
    /\ TaggedAsDeclared(Last(hl7XML.kids[2].kids),
                        SplitOn(ShapeField(Fields), <<"^">>), ShapeBits(Fields))

\* C30: decoding a matched segment never fails on the shape of a field: with
\* more components, or more subcomponents, than the datatype declares there is
\* no access out of range, and every component or subcomponent that is not
\* empty and stands at a declared position k is a child tagged with the k-th
\* declared code.
C30_AnyShapeDecoded ==
    pc # "leaf" =>
        /\ status # "IndexError"
        /\ ShapeDecoded(SplitOn(Segments[2], <<Bar>>))

\* what the code does: the decoding ends with IndexError exactly when a part
\* that is not empty stands after the last declared position, and within the
\* declared positions the claim holds
ShapeAsCoded ==
    pc # "leaf" =>
        IF Overflows(SplitOn(ShapeField(SplitOn(Segments[2], <<Bar>>)), <<"^">>),
                     ShapeBits(SplitOn(Segments[2], <<Bar>>)))
        THEN pc = "exit" /\ status = "IndexError" /\ hl7XML = NoElement
        ELSE status # "IndexError" /\ ShapeDecoded(SplitOn(Segments[2], <<Bar>>))

\* OBR|1||a^a&b&c has ended with IndexError, and OBR|1|a^a&b^a likewise
ThirdPartRaised ==
    /\ pc = "exit" /\ status = "IndexError"
    /\ Segments[2] \in {OBR \o <<Bar, "1", Bar, Bar, "a", "^", "a", "&", "b", "&", "c">>,
                        OBR \o <<Bar, "1", Bar, "a", "^", "a", "&", "b", "^", "a">>}

=============================================================================
